---- MODULE Spec2Model ----
(***************************************************************************)
(* Model of the EVM bridge (evm-utils/evm-bridge/src/main.rs) and of the   *)
(* core log handler (core/src/evm_rpc_impl/mod.rs).                        *)
(*                                                                         *)
(* SpecPool : sendTransaction / sendRawTransaction / send_tx, the pool     *)
(*            and its workers, transactionCount.                           *)
(* SpecLogs : eth_getLogs of the bridge (block_to_number, range checks,    *)
(*            chunk loop, parallel sub-queries, join) and the range check  *)
(*            of the core logs handler.                                    *)
(* SpecCore : the handlers of the core node (block lookup, traces, calls,  *)
(*            block_number).                                               *)
(* SpecProxy: the proxied calls of the bridge, the compatibility patches,  *)
(*            the error translation and main.                              *)
(* SpecConfirm, SpecConfirmLive : send_and_confirm_transactions.           *)
(* SpecHex  : Hex<T> and Bytes of evm-rpc/src/serialize.rs.                *)
(*                                                                         *)
(* The pool itself (pool.rs) is not part of the sources at hand; its       *)
(* operations are modelled from the specification text (section 4.2/4.3).  *)
(***************************************************************************)
EXTENDS Integers, Sequences, FiniteSets, TLC

VARIABLES
    min_gas_price,    \* EvmBridge.min_gas_price
    simulate,         \* EvmBridge.simulate
    max_logs_blocks,  \* EvmBridge.max_logs_blocks
    overflow_checks,  \* build profile: TRUE = u64 `+` panics on overflow, FALSE = wraps
    pool,             \* EvmBridge.pool : set of pooled entries
    calls,            \* sendTransaction / sendRawTransaction calls, in arrival order
    reply,            \* reply of the handler that ran to completion in the last step
    lg,               \* the eth_getLogs request being served
    verbose_errors,   \* EvmBridge.verbose_errors
    main_pc,          \* position of main: "args", "running" or "panicked"
    args_min_gas_price, \* Args.min_gas_price after U256::from_dec_str(..).ok()
    core,             \* the node behind the bridge: its ledger and the core request in progress
    cf,               \* the run of send_and_confirm_transactions (locals, position, result)
    hx                \* the Hex / Bytes value or string being serialized or deserialized

vars == <<min_gas_price, simulate, max_logs_blocks, overflow_checks, pool, calls, reply, lg,
          verbose_errors, main_pc, args_min_gas_price, core, cf, hx>>

cfgVars == <<min_gas_price, simulate, max_logs_blocks, overflow_checks,
             verbose_errors, main_pc, args_min_gas_price>>

(***************************************************************************)
(* Bounds of the model.                                                    *)
(***************************************************************************)
MaxCalls == 2      \* number of send calls in one behaviour of SpecPool
MaxCountCalls == 1 \* number of send calls in one behaviour of SpecCount
WordBits == 16     \* width given to u64 (TLC integers are 32 bit)
MaxChunks == 4     \* cap on the sub-queries spawned by one eth_getLogs

U64_MAX == 2^WordBits - 1

(***************************************************************************)
(* Option<T> is the empty set (None) or a singleton (Some(v)).             *)
(***************************************************************************)
None == {}
Some(v) == {v}
Unwrap(o) == CHOOSE v \in o : TRUE
OrElse(o, p) == IF o # None THEN o ELSE p
UnwrapOrDefault(o) == IF o # None THEN Unwrap(o) ELSE 0

Max(S) == CHOOSE x \in S : \A y \in S : y <= x
Min2(a, b) == IF a <= b THEN a ELSE b

(***************************************************************************)
(* Configuration.                                                          *)
(***************************************************************************)
Gwei == 1000000000

\* U256, scaled to the integers of the model checker
U256_MAX == 2147483647

\* mutant: the price is rounded down to a multiple of one gwei
min_gas_price_or_default_floor(configured, default_price) ==
    LET p == IF configured # None THEN Unwrap(configured) ELSE default_price IN
    [panic |-> FALSE, val |-> p - (p % Gwei)]

\* Args::min_gas_price_or_default; `configured` is --min-gas-price after
\* from_dec_str(..).ok(), `default_price` the value of the nested min_gas_price().
\* `+=` of U256 panics on overflow in every build profile.
min_gas_price_or_default(configured, default_price) ==
    LET p == IF configured # None THEN Unwrap(configured) ELSE default_price IN
    IF p > U256_MAX - (Gwei - 1)
    THEN [panic |-> TRUE, val |-> 0]
    ELSE LET gas_price == p + (Gwei - 1)
         IN  [panic |-> FALSE, val |-> gas_price - (gas_price % Gwei)]

ConfiguredPrices == {1}

\* EvmBridge::new : one key, SECRET_KEY_DUMMY, whose address is "A"
Addresses == {"A", "B"}
accounts == {"A"}

(***************************************************************************)
(* Transactions and results.                                               *)
(***************************************************************************)
NoTx == [sender |-> "", nonce |-> 0, gas_price |-> 0]
ZeroHash == <<"", 0, 0>>

\* evm::Transaction::tx_id_hash : determined by the content, collision free
tx_id_hash(tx) == <<tx.sender, tx.nonce, tx.gas_price>>

NoResult == [kind |-> "none", hash |-> ZeroHash, need |-> 0]
Ok(h) == [kind |-> "Ok", hash |-> h, need |-> 0]
Err(k) == [kind |-> k, hash |-> ZeroHash, need |-> 0]
GasPriceTooLow(need) == [kind |-> "GasPriceTooLow", hash |-> ZeroHash, need |-> need]

Nonces == {7}
UpstreamCounts == {Err("NativeRpcError"), Ok(<<"count", 1, 0>>)}

GasPrices ==
    {p \in {min_gas_price - 1, min_gas_price, min_gas_price + 1} : p >= 0}

(***************************************************************************)
(* The pool (pool.rs, modelled from the specification).                    *)
(***************************************************************************)
PoolHashes(pl) == {tx_id_hash(e.tx) : e \in pl}

\* EthPool::transaction_count : highest nonce of the sender plus one
pool_transaction_count(pl, address) ==
    LET mine == {e.tx.nonce : e \in {x \in pl : x.tx.sender = address}}
    IN  IF mine = {} THEN None ELSE Some(Max(mine) + 1)

\* EthPool::import : the possible outcomes [res, pool] of importing entry e.
\* A known hash is refused with AlreadyImported; a (sender, nonce) collision
\* either replaces the stored entry or refuses the new one (pool policy).
import(pl, e) ==
    LET h == tx_id_hash(e.tx)
        same == {x \in pl : x.tx.sender = e.tx.sender /\ x.tx.nonce = e.tx.nonce}
    IN  IF h \in PoolHashes(pl)
        THEN {[res |-> "AlreadyImported", pool |-> pl]}
        ELSE IF same # {}
        THEN {[res |-> "Ok", pool |-> (pl \ same) \cup {e}],
              [res |-> "TooCheapToReplace", pool |-> pl]}
        ELSE {[res |-> "Ok", pool |-> pl \cup {e}]}

(***************************************************************************)
(* Block identifiers and results of the log handlers.                      *)
(***************************************************************************)
Num(n) == [kind |-> "num", num |-> n]
Rel(k) == [kind |-> k, num |-> 0]

LogsRes(kind, starting, ending, batch_size, logs) ==
    [kind |-> kind, starting |-> starting, ending |-> ending,
     batch_size |-> batch_size, logs |-> logs]

Running == LogsRes("running", 0, 0, None, <<>>)
NoLogsRes == LogsRes("none", 0, 0, None, <<>>)
LogsOk(logs) == LogsRes("Ok", 0, 0, None, logs)
LogsErr(kind, a) == LogsRes(kind, a, 0, None, <<>>)
InvalidBlocksRange(starting, ending, batch_size) ==
    LogsRes("InvalidBlocksRange", starting, ending, batch_size, <<>>)

\* no eth_getLogs request is being served
LgIdle ==
    [pc |-> "idle", from_block |-> None, to_block |-> None,
     starting_block |-> 0, ending_block |-> 0, starting |-> 0,
     collector |-> <<>>, joined |-> 0, result |-> <<>>, ret |-> NoLogsRes,
     upstream |-> <<>>, out_of_order |-> FALSE]

(***************************************************************************)
(* The ledger of the node (JsonRpcRequestProcessor).  Block n exists in    *)
(* two forks; the hash index keeps the entries of blocks that were         *)
(* replaced at their number.                                               *)
(***************************************************************************)
MaxBlock == 2      \* highest block number of the ledger

BlockNums == 1..MaxBlock
Forks == {"a", "b"}

Min(S) == CHOOSE x \in S : \A y \in S : x <= y

Block(n, f) == [number |-> n, fork |-> f]
\* block.header.hash()
hash(b) == 2 * b.number + (IF b.fork = "a" THEN 0 ELSE 1)
\* block.header.state_root
state_root(b) == 100 + hash(b)
\* the transaction recorded in a block (one per block)
tx_hash_of(b) == 200 + hash(b)

BlockHashes == {hash(Block(n, f)) : n \in BlockNums, f \in Forks}
UnknownHash == 99
BlockHash(h) == [kind |-> "hash", num |-> h]

NoReq == [op |-> "none", block_hash |-> 0, b |-> 0, full |-> FALSE]

CoreInit ==
    [blocks |-> [n \in BlockNums |-> "none"], index |-> {}, req |-> NoReq]

StoredNums(c) == {n \in BlockNums : c.blocks[n] # "none"}

get_evm_block_by_id(c, n) ==
    IF n \in StoredNums(c) THEN Some(Block(n, c.blocks[n])) ELSE None

get_evm_block_id_by_hash(c, h) ==
    IF h \in c.index THEN Some(h \div 2) ELSE None

get_last_available_evm_block(c) ==
    IF StoredNums(c) = {} THEN None ELSE Some(Max(StoredNums(c)))

get_frist_available_evm_block(c) ==
    IF StoredNums(c) = {} THEN 0 ELSE Min(StoredNums(c))

\* bank.evm_state.block_number() : the number of the block being built
block_number(c) == IF StoredNums(c) = {} THEN 0 ELSE Max(StoredNums(c)) + 1

saturating_sub(a, b) == IF a >= b THEN a - b ELSE 0

\* the number `latest` and `pending` stand for
last_block_num(c) ==
    IF get_last_available_evm_block(c) # None
    THEN Unwrap(get_last_available_evm_block(c))
    ELSE saturating_sub(block_number(c), 1)

\* BlockId::default()
unwrap_or_default(block) == IF block = None THEN Rel("latest") ELSE Unwrap(block)

\* block_to_state_root of the core
block_to_state_root(c, block) ==
    LET block_id == unwrap_or_default(block)
        found_block_hash == IF block_id.kind = "hash" THEN Some(block_id.num) ELSE None
        block_num ==
            IF block_id.kind = "num" THEN Some(block_id.num)
            ELSE IF block_id.kind \in {"pending", "latest"} THEN Some(last_block_num(c))
            ELSE IF block_id.kind = "earliest" THEN Some(get_frist_available_evm_block(c))
            ELSE get_evm_block_id_by_hash(c, block_id.num)
    IN  IF block_num = None THEN None
        ELSE LET b == get_evm_block_by_id(c, Unwrap(block_num)) IN
             IF b = None THEN None
             ELSE IF found_block_hash # None /\ hash(Unwrap(b)) # Unwrap(found_block_hash)
             THEN None
             ELSE Some(state_root(Unwrap(b)))

\* block_parse_confirmed_num of the core
block_parse_confirmed_num(c, block) ==
    IF block = None THEN None
    ELSE LET b == Unwrap(block) IN
         IF b.kind = "hash" THEN None
         ELSE IF b.kind = "earliest" THEN Some(get_frist_available_evm_block(c))
         ELSE IF b.kind \in {"pending", "latest"} THEN Some(last_block_num(c))
         ELSE Some(b.num)

(***************************************************************************)
(* Initial state.                                                          *)
(***************************************************************************)
NoReply == [method |-> "none"]

\* no run of send_and_confirm_transactions, nothing being (de)serialized
CfIdle == [pc |-> "idle"]
HxIdle == [pc |-> "idle"]

InitPool ==
    /\ cf = CfIdle
    /\ hx = HxIdle
    /\ \E p \in ConfiguredPrices :
          /\ args_min_gas_price = Some(p)
          /\ min_gas_price = min_gas_price_or_default(Some(p), 0).val
    /\ main_pc = "running"
    /\ verbose_errors = FALSE
    /\ core = CoreInit
    /\ simulate \in BOOLEAN
    /\ max_logs_blocks = 500
    /\ overflow_checks = FALSE
    /\ pool = {}
    /\ calls = <<>>
    /\ reply = NoReply
    /\ lg = LgIdle

(***************************************************************************)
(* sendTransaction / sendRawTransaction up to the call of send_tx.  A call *)
(* that fails before send_tx leaves nothing behind but its reply.          *)
(***************************************************************************)
\* nonce_arg is the nonce field of the request (an RLP transaction always has one)
NewCall(method, tx) ==
    [method |-> method, pc |-> "send_tx", tx |-> tx, nonce_arg |-> Some(tx.nonce),
     imp |-> "none", chan |-> NoResult, published |-> NoResult, ret |-> NoResult]

\* the nonce chosen by send_transaction (and sign_transaction)
choose_nonce(nonce, address, upstream) ==
    UnwrapOrDefault(
        OrElse(OrElse(nonce, pool_transaction_count(pool, address)),
               IF upstream.kind = "Ok" THEN Some(upstream.hash[2]) ELSE None))

\* BridgeErpcImpl::send_transaction, up to `meta.send_tx(tx, meta_keys).await`
send_transaction(from, nonce, gas_price, meta_keys_ok, upstream) ==
    /\ Len(calls) < MaxCalls
    /\ IF ~meta_keys_ok
       THEN /\ reply' = [method |-> "send_transaction", ret |-> Err("NativeRpcError")]
            /\ calls' = calls
       ELSE IF from \notin accounts
       THEN /\ reply' = [method |-> "send_transaction", ret |-> Err("KeyNotFound")]
            /\ calls' = calls
       ELSE /\ reply' = NoReply
            /\ calls' = Append(calls, [NewCall("send_transaction",
                           [sender |-> from,
                            nonce |-> choose_nonce(nonce, from, upstream),
                            gas_price |-> IF gas_price # None THEN Unwrap(gas_price)
                                          ELSE min_gas_price])
                                       EXCEPT !.nonce_arg = nonce])
    /\ UNCHANGED <<cfgVars, cf, hx, core, pool, lg>>

\* BridgeErpcImpl::send_raw_transaction, up to `meta.send_tx(tx, meta_keys).await`
send_raw_transaction(tx, meta_keys_ok, rlp_ok) ==
    /\ Len(calls) < MaxCalls
    /\ IF ~meta_keys_ok
       THEN /\ reply' = [method |-> "send_raw_transaction", ret |-> Err("NativeRpcError")]
            /\ calls' = calls
       ELSE IF ~rlp_ok
       THEN /\ reply' = [method |-> "send_raw_transaction", ret |-> Err("RlpError")]
            /\ calls' = calls
       ELSE /\ reply' = NoReply
            /\ calls' = Append(calls, NewCall("send_raw_transaction", tx))
    /\ UNCHANGED <<cfgVars, cf, hx, core, pool, lg>>

(***************************************************************************)
(* EvmBridge::send_tx.                                                     *)
(***************************************************************************)
\* mutant: a duplicate waits on the result channel like a fresh admission
after_import_dup_waits(call, res) ==
    IF res \in {"AlreadyImported", "Ok"}
    THEN IF simulate
         THEN [call EXCEPT !.imp = res, !.pc = "waiting"]
         ELSE [call EXCEPT !.imp = res, !.pc = "returned", !.ret = Ok(tx_id_hash(call.tx))]
    ELSE [call EXCEPT !.imp = res, !.pc = "returned", !.ret = Err("RuntimeError")]

\* mutant: the simulate flag is ignored, the hash is returned on admission
after_import_no_wait(call, res) ==
    IF res \in {"AlreadyImported", "Ok"}
    THEN [call EXCEPT !.imp = res, !.pc = "returned", !.ret = Ok(tx_id_hash(call.tx))]
    ELSE [call EXCEPT !.imp = res, !.pc = "returned", !.ret = Err("RuntimeError")]

\* the call after `self.pool.import(tx)` answered `res`
after_import(call, res) ==
    IF res = "AlreadyImported"
    THEN [call EXCEPT !.imp = res, !.pc = "returned", !.ret = Ok(tx_id_hash(call.tx))]
    ELSE IF res = "Ok"
    THEN IF simulate
         THEN [call EXCEPT !.imp = res, !.pc = "waiting"]
         ELSE [call EXCEPT !.imp = res, !.pc = "returned", !.ret = Ok(tx_id_hash(call.tx))]
    ELSE [call EXCEPT !.imp = res, !.pc = "returned", !.ret = Err("RuntimeError")]

\* mutant: a price equal to the minimum is rejected too
price_too_low_or_equal(tx) == tx.gas_price <= min_gas_price

\* the gas price check of send_tx
price_too_low(tx) == tx.gas_price < min_gas_price

\* send_tx from its entry to its return or to `receiver.recv().await`;
\* sig_ok: PooledTransaction::new recovers the sender from the signature
send_tx(c, sig_ok) ==
    /\ c \in DOMAIN calls
    /\ calls[c].pc = "send_tx"
    /\ sig_ok \/ calls[c].method = "send_raw_transaction"
    /\ LET call == calls[c] IN
       IF price_too_low(call.tx)
       THEN /\ calls' = [calls EXCEPT ![c] =
                  [call EXCEPT !.pc = "returned", !.ret = GasPriceTooLow(min_gas_price)]]
            /\ pool' = pool
       ELSE IF ~sig_ok
       THEN /\ calls' = [calls EXCEPT ![c] =
                  [call EXCEPT !.pc = "returned", !.ret = Err("EvmStateError")]]
            /\ pool' = pool
       ELSE \E o \in import(pool, [tx |-> call.tx, call |-> c, state |-> "pending"]) :
            /\ pool' = o.pool
            /\ calls' = [calls EXCEPT ![c] = after_import(call, o.res)]
    /\ reply' = NoReply
    /\ UNCHANGED <<cfgVars, cf, hx, core, lg>>

\* `receiver.recv().await.unwrap()` : the submitter takes the published result
send_tx_recv(c) ==
    /\ c \in DOMAIN calls
    /\ calls[c].pc = "waiting"
    /\ calls[c].chan # NoResult
    /\ calls' = [calls EXCEPT ![c] =
          [@ EXCEPT !.pc = "returned", !.ret = calls[c].chan, !.chan = NoResult]]
    /\ reply' = NoReply
    /\ UNCHANGED <<cfgVars, cf, hx, core, pool, lg>>

\* `receiver.recv().await.unwrap()` when the pooled entry, owner of the sender,
\* is gone and nothing was published: if the sender half is dropped with the
\* entry, recv() yields None and unwrap() panics; if send_tx's own handle on the
\* entry keeps the sender alive, the call stays at the await (no step)
send_tx_recv_closed(c) ==
    /\ c \in DOMAIN calls
    /\ calls[c].pc = "waiting"
    /\ calls[c].chan = NoResult
    /\ ~\E e \in pool : e.call = c
    /\ calls' = [calls EXCEPT ![c] = [@ EXCEPT !.pc = "panicked"]]
    /\ reply' = NoReply
    /\ UNCHANGED <<cfgVars, cf, hx, core, pool, lg>>

(***************************************************************************)
(* Pool workers (pool.rs, modelled from the specification).                *)
(***************************************************************************)
\* deploy worker: submits a pending entry and, in simulate mode, forwards the
\* outcome (the hash, or the translated upstream error) on the entry's result
\* channel
worker_deploy(e, ok) ==
    /\ e \in pool
    /\ e.state = "pending"
    /\ pool' = (pool \ {e}) \cup {[e EXCEPT !.state = "deployed"]}
    /\ LET r == IF ok THEN Ok(tx_id_hash(e.tx)) ELSE Err("ProxyRpcError") IN
       calls' = IF simulate
                THEN [calls EXCEPT ![e.call] = [@ EXCEPT !.chan = r, !.published = r]]
                ELSE calls
    /\ reply' = NoReply
    /\ UNCHANGED <<cfgVars, cf, hx, core, lg>>

\* cleaner: removes an entry that landed on chain or whose time budget expired
worker_cleaner(e) ==
    /\ e \in pool
    /\ pool' = pool \ {e}
    /\ reply' = NoReply
    /\ UNCHANGED <<cfgVars, cf, hx, core, calls, lg>>

(***************************************************************************)
(* ChainErpcProxy::transaction_count.                                      *)
(***************************************************************************)
BlockIds == {"absent", "latest", "pending", "earliest", "num"}

\* mutant: the pool is consulted whatever the block identifier
transaction_count_reply_any_block(address, block, upstream) ==
    LET pooled == pool_transaction_count(pool, address) IN
    IF pooled # None
    THEN [method |-> "transaction_count", address |-> address, block |-> block,
          upstream_called |-> FALSE, upstream |-> NoResult,
          ret |-> Ok(<<"count", Unwrap(pooled), 0>>)]
    ELSE [method |-> "transaction_count", address |-> address, block |-> block,
          upstream_called |-> TRUE, upstream |-> upstream, ret |-> upstream]

\* the reply of transaction_count
transaction_count_reply(address, block, upstream) ==
    LET pooled == pool_transaction_count(pool, address) IN
    IF block = "pending" /\ pooled # None
    THEN [method |-> "transaction_count", address |-> address, block |-> block,
          upstream_called |-> FALSE, upstream |-> NoResult,
          ret |-> Ok(<<"count", Unwrap(pooled), 0>>)]
    ELSE [method |-> "transaction_count", address |-> address, block |-> block,
          upstream_called |-> TRUE, upstream |-> upstream, ret |-> upstream]

transaction_count(address, block, upstream) ==
    /\ reply' = transaction_count_reply(address, block, upstream)
    /\ UNCHANGED <<cfgVars, cf, hx, core, pool, calls, lg>>

(***************************************************************************)
(* Specification of the pool side.                                         *)
(***************************************************************************)
RawTxs == [sender : {"B"}, nonce : Nonces, gas_price : GasPrices]

Submit ==
    \/ \E from \in Addresses, nonce \in {None} \cup {Some(n) : n \in Nonces},
          gas_price \in {None} \cup {Some(p) : p \in GasPrices},
          meta_keys_ok \in BOOLEAN, upstream \in UpstreamCounts :
          send_transaction(from, nonce, gas_price, meta_keys_ok, upstream)
    \/ \E tx \in RawTxs, meta_keys_ok \in BOOLEAN, rlp_ok \in BOOLEAN :
          send_raw_transaction(tx, meta_keys_ok, rlp_ok)

PoolSteps ==
    \/ \E c \in DOMAIN calls, sig_ok \in BOOLEAN : send_tx(c, sig_ok)
    \/ \E c \in DOMAIN calls : send_tx_recv(c)
    \/ \E c \in DOMAIN calls : send_tx_recv_closed(c)
    \/ \E e \in pool, ok \in BOOLEAN : worker_deploy(e, ok)
    \/ \E e \in pool : worker_cleaner(e)

NextPool == Submit \/ PoolSteps

SpecPool == InitPool /\ [][NextPool]_vars

\* the pool side together with the transactionCount handler
NextCount ==
    \/ Len(calls) < MaxCountCalls /\ Submit
    \/ PoolSteps
    \/ \E address \in Addresses, block \in BlockIds, upstream \in UpstreamCounts :
          transaction_count(address, block, upstream)

SpecCount == InitPool /\ [][NextCount]_vars

(***************************************************************************)
(* Claims about the pool side.                                             *)
(***************************************************************************)
OnePerHash ==
    \A e1, e2 \in pool : tx_id_hash(e1.tx) = tx_id_hash(e2.tx) => e1 = e2

\* a step in which send_tx of call c hands a transaction whose hash is pooled
\* to import: the pool stays as it is and the call returns Ok(hash) at once
DuplicateStep ==
    \A c \in DOMAIN calls :
        (/\ calls[c].pc = "send_tx"
         /\ calls'[c].imp # "none"
         /\ tx_id_hash(calls[c].tx) \in PoolHashes(pool))
        => /\ pool' = pool
           /\ calls'[c].imp = "AlreadyImported"
           /\ calls'[c].pc = "returned"
           /\ calls'[c].ret = Ok(tx_id_hash(calls[c].tx))

\* C1: the pool never holds two entries with one EVM hash; importing a pooled
\* hash answers AlreadyImported, leaves the pool unchanged, and send_tx
\* returns Ok(hash) without waiting on the result channel, simulate or not.
C1_OneEntryPerHash == []OnePerHash /\ [][DuplicateStep]_vars

C1_Witness ==
    /\ simulate
    /\ \E c \in DOMAIN calls :
          /\ calls[c].imp = "AlreadyImported"
          /\ calls[c].pc = "returned"
          /\ calls[c].ret = Ok(tx_id_hash(calls[c].tx))
          /\ tx_id_hash(calls[c].tx) \in PoolHashes(pool)

\* a step in which send_tx runs on a transaction priced below min_gas_price
LowPriceStep ==
    \A c \in DOMAIN calls :
        (/\ calls[c].pc = "send_tx"
         /\ calls'[c].pc # "send_tx"
         /\ calls[c].tx.gas_price < min_gas_price)
        => /\ pool' = pool
           /\ calls'[c].pc = "returned"
           /\ calls'[c].ret = GasPriceTooLow(min_gas_price)
           /\ calls'[c].imp = "none"

NoLowPriceEntry ==
    /\ \A e \in pool : e.tx.gas_price >= min_gas_price
    /\ \A c \in DOMAIN calls :
          /\ calls[c].tx.gas_price < min_gas_price => calls[c].imp = "none"
          /\ calls[c].ret.kind = "GasPriceTooLow" =>
                calls[c].tx.gas_price < min_gas_price

\* C2: a transaction priced below min_gas_price fails with
\* GasPriceTooLow{need: min_gas_price} before the pool is touched and is never
\* pooled; a price equal to min_gas_price is never rejected for its price.
C2_GasPriceTooLow == []NoLowPriceEntry /\ [][LowPriceStep]_vars

C2_Witness ==
    \E c1, c2 \in DOMAIN calls :
        /\ calls[c1].ret = GasPriceTooLow(min_gas_price)
        /\ calls[c1].method = "send_raw_transaction"
        /\ calls[c2].tx.gas_price = min_gas_price
        /\ calls[c2].imp = "Ok"
        /\ pool # {}

\* C3: in simulate mode an admitted call returns only after the deploy worker
\* published a result on its channel, and returns that result; without
\* simulate an admitted call has returned Ok(hash) in the step that admitted it.
C3_SimulateWaits ==
    \A c \in DOMAIN calls :
        calls[c].imp = "Ok" =>
            IF simulate
            THEN /\ calls[c].pc \in {"waiting", "returned", "panicked"}
                 /\ calls[c].pc = "returned" =>
                       /\ calls[c].published # NoResult
                       /\ calls[c].ret = calls[c].published
                 /\ calls[c].published = NoResult => calls[c].pc \in {"waiting", "panicked"}
                 /\ calls[c].pc = "panicked" => calls[c].ret = NoResult
            ELSE /\ calls[c].pc = "returned"
                 /\ calls[c].ret = Ok(tx_id_hash(calls[c].tx))
                 /\ calls[c].published = NoResult

C3_Witness ==
    /\ simulate
    /\ \E c \in DOMAIN calls :
          /\ calls[c].imp = "Ok"
          /\ calls[c].pc = "returned"
          /\ calls[c].ret = Err("ProxyRpcError")
          /\ calls[c].published = Err("ProxyRpcError")

\* C4: transactionCount(address, pending) answers from the pool, with no
\* upstream call, whenever the pool holds a transaction of the sender: the
\* highest pooled nonce plus one; in every other case the upstream answer is
\* returned.  With a single pooled transaction of nonce 7 the answer is 8.
C4_PendingCount ==
    reply.method = "transaction_count" =>
        LET mine == {e \in pool : e.tx.sender = reply.address} IN
        IF reply.block = "pending" /\ mine # {}
        THEN /\ ~reply.upstream_called
             /\ reply.ret.kind = "Ok"
             /\ \E e \in mine : reply.ret.hash[2] = e.tx.nonce + 1
             /\ \A e \in mine : e.tx.nonce < reply.ret.hash[2]
             /\ (\A e \in mine : e.tx.nonce = 7) => reply.ret.hash[2] = 8
        ELSE /\ reply.upstream_called
             /\ reply.ret = reply.upstream

C4_Witness ==
    /\ reply.method = "transaction_count"
    /\ reply.block = "pending"
    /\ ~reply.upstream_called
    /\ reply.ret = Ok(<<"count", 8, 0>>)
    /\ \E c \in DOMAIN calls :
          calls[c].method = "send_transaction" /\ calls[c].tx.nonce = 7

(***************************************************************************)
(* u64 arithmetic.                                                         *)
(***************************************************************************)
\* `a + b` on u64: panics when overflow checks are compiled in, wraps otherwise
add_u64(a, b) ==
    IF a + b <= U64_MAX THEN [panic |-> FALSE, val |-> a + b]
    ELSE IF overflow_checks THEN [panic |-> TRUE, val |-> 0]
    ELSE [panic |-> FALSE, val |-> (a + b) % (U64_MAX + 1)]

\* u64::saturating_add
saturating_add(a, b) == Min2(a + b, U64_MAX)

MAX_NUM_BLOCKS_IN_BATCH == 2000
MAX_NUM_BLOCKS == 2000

(***************************************************************************)
(* Resolution of block identifiers.                                        *)
(***************************************************************************)
\* EvmBridge::block_to_number; `upstream` is the answer eth_blockNumber would give
block_to_number(block, upstream) ==
    LET b == IF block = None THEN Rel("latest") ELSE Unwrap(block) IN
    IF b.kind = "num"
    THEN [res |-> LogsOk(<<>>), num |-> b.num, called |-> <<>>]
    ELSE IF b.kind = "latest"
    THEN [res |-> IF upstream = None THEN LogsErr("NativeRpcError", 0) ELSE LogsOk(<<>>),
          num |-> UnwrapOrDefault(upstream), called |-> <<"EthBlockNumber">>]
    ELSE [res |-> LogsErr("BlockNotFound", 0), num |-> 0, called |-> <<>>]

(***************************************************************************)
(* ChainErpcProxy::logs of the bridge.                                     *)
(***************************************************************************)
Done(l, ret) == [l EXCEPT !.pc = "done", !.ret = ret]

\* mutant: the inverted range is not refused
range_check_no_inverted(starting_block, ending_block) ==
    LET limit == add_u64(starting_block, max_logs_blocks) IN
    IF limit.panic THEN "panic"
    ELSE IF ending_block > limit.val THEN "too_large"
    ELSE "accepted"

\* the two range checks of logs
range_check(starting_block, ending_block) ==
    IF ending_block < starting_block THEN "inverted"
    ELSE LET limit == add_u64(starting_block, max_logs_blocks) IN
         IF limit.panic THEN "panic"
         ELSE IF ending_block > limit.val THEN "too_large"
         ELSE "accepted"

\* logs, from its entry to the `Box::pin(async move ...)` it returns
logs_entry(from_block, to_block, up1, up2) ==
    LET l0 == [LgIdle EXCEPT !.from_block = from_block, !.to_block = to_block]
        r1 == block_to_number(from_block, up1)
        l1 == [l0 EXCEPT !.upstream = r1.called, !.starting_block = r1.num]
        r2 == block_to_number(to_block, up2)
        l2 == [l1 EXCEPT !.upstream = l1.upstream \o r2.called, !.ending_block = r2.num]
        chk == range_check(r1.num, r2.num)
    IN  IF r1.res.kind # "Ok" THEN Done([l1 EXCEPT !.starting_block = 0], r1.res)
        ELSE IF r2.res.kind # "Ok" THEN Done([l2 EXCEPT !.ending_block = 0], r2.res)
        ELSE IF chk = "inverted"
        THEN Done(l2, InvalidBlocksRange(r1.num, r2.num, None))
        ELSE IF chk = "panic" THEN [l2 EXCEPT !.pc = "panicked"]
        ELSE IF chk = "too_large"
        THEN Done(l2, InvalidBlocksRange(r1.num, r2.num, Some(max_logs_blocks)))
        ELSE [l2 EXCEPT !.pc = "plan", !.starting = r1.num]

logs(from_block, to_block, up1, up2) ==
    /\ lg.pc = "idle"
    /\ lg' = logs_entry(from_block, to_block, up1, up2)
    /\ reply' = NoReply
    /\ UNCHANGED <<cfgVars, cf, hx, core, pool, calls>>

\* one evaluation of `while starting <= ending_block` and of its body
spawn(l) ==
    IF l.starting <= l.ending_block
    THEN LET ending == Min2(saturating_add(l.starting, MAX_NUM_BLOCKS_IN_BATCH),
                            l.ending_block)
         IN  [l EXCEPT !.collector = Append(@, [from |-> l.starting, to |-> ending,
                                                res |-> Running]),
                       !.starting = saturating_add(l.starting, MAX_NUM_BLOCKS_IN_BATCH + 1)]
    ELSE [l EXCEPT !.pc = "join"]

logs_spawn ==
    /\ lg.pc = "plan"
    /\ Len(lg.collector) < MaxChunks
    /\ lg' = spawn(lg)
    /\ reply' = NoReply
    /\ UNCHANGED <<cfgVars, cf, hx, core, pool, calls>>

(***************************************************************************)
(* BasicErpcImpl::logs of the core: the range check on numeric endpoints.  *)
(***************************************************************************)
\* `to > from + MAX_NUM_BLOCKS` of the core
core_range_check(from, to) ==
    LET limit == add_u64(from, MAX_NUM_BLOCKS) IN
    IF limit.panic THEN "panic"
    ELSE IF to > limit.val THEN "too_large"
    ELSE "accepted"

\* the answer of the core to eth_getLogs(from, to); `found` is what filter_logs gives
core_logs(from, to, found) ==
    LET chk == core_range_check(from, to) IN
    IF chk = "panic" THEN LogsErr("CorePanic", from)
    ELSE IF chk = "too_large" THEN InvalidBlocksRange(from, to, Some(MAX_NUM_BLOCKS))
    ELSE found

\* a direct eth_getLogs request to the core
basic_logs(from, to, found) ==
    /\ lg.pc = "idle"
    /\ reply' = [method |-> "core_logs", from |-> from, to |-> to,
                 ret |-> core_logs(from, to, found)]
    /\ UNCHANGED <<cfgVars, cf, hx, core, pool, calls, lg>>

(***************************************************************************)
(* The sub-queries and the join.                                           *)
(***************************************************************************)
\* what the upstream may find for the sub-range [a, b]
Found(a, b) == {LogsOk(<< <<b, 1>>, <<a, 0>> >>), LogsErr("NativeRpcError", a)}

\* how a sub-query may end: with the upstream's answer, or with its task lost
TaskEnds(a, b) == Found(a, b) \cup {LogsErr("JoinError", a)}

\* the blocking task of sub-query i completes
get_logs_task(i, found) ==
    /\ lg.pc \in {"plan", "join"}
    /\ i \in DOMAIN lg.collector
    /\ lg.collector[i].res = Running
    /\ LET q == lg.collector[i]
           r == core_logs(q.from, q.to, found)
           res == IF found.kind = "JoinError" THEN found
                  ELSE IF r.kind = "InvalidBlocksRange"
                  THEN LogsErr("CoreInvalidBlocksRange", q.from)
                  ELSE r
       IN  lg' = [lg EXCEPT !.collector[i].res = res,
                            !.out_of_order = @ \/ \E j \in 1..(i - 1) :
                                                     lg.collector[j].res = Running]
    /\ reply' = NoReply
    /\ UNCHANGED <<cfgVars, cf, hx, core, pool, calls>>

\* `collection.await.map_err(...)??` : the error the join reports for a task
join_error(res) ==
    IF res.kind = "JoinError" THEN LogsErr("RuntimeError", res.starting) ELSE res

\* mutant: the logs of the awaited task are put in front of the result
join_prepend(l) ==
    LET res == l.collector[l.joined + 1].res IN
    IF res.kind = "Ok"
    THEN [l EXCEPT !.joined = @ + 1, !.result = res.logs \o @]
    ELSE Done(l, join_error(res))

\* one turn of `for collection in collector`, the awaited task having completed
join(l) ==
    LET res == l.collector[l.joined + 1].res IN
    IF res.kind = "Ok"
    THEN [l EXCEPT !.joined = @ + 1, !.result = @ \o res.logs]
    ELSE Done(l, join_error(res))

logs_join ==
    /\ lg.pc = "join"
    /\ IF lg.joined = Len(lg.collector)
       THEN lg' = Done(lg, LogsOk(lg.result))
       ELSE /\ lg.collector[lg.joined + 1].res # Running
            /\ lg' = join(lg)
    /\ reply' = NoReply
    /\ UNCHANGED <<cfgVars, cf, hx, core, pool, calls>>

(***************************************************************************)
(* Specification of the log side.                                          *)
(***************************************************************************)
MaxLogsChoices == {0, 500, 4500}
FromNums == {0, 10, U64_MAX - 2001, U64_MAX - 500, U64_MAX}
ToNums == {0, 9, 10, 500, 501, 600, 2000, 2001, 4002, 4500, 4501,
           U64_MAX - 1, U64_MAX}
RelIds == {None, Some(Rel("latest")), Some(Rel("pending")), Some(Rel("earliest")),
           Some(Rel("hash"))}
FromBlocks == RelIds \cup {Some(Num(n)) : n \in FromNums}
ToBlocks == RelIds \cup {Some(Num(n)) : n \in ToNums}
UpBlockNumbers == {None, Some(10), Some(11)}

InitLogs ==
    /\ cf = CfIdle
    /\ hx = HxIdle
    /\ min_gas_price = Gwei
    /\ args_min_gas_price = Some(Gwei)
    /\ main_pc = "running"
    /\ verbose_errors = FALSE
    /\ core = CoreInit
    /\ simulate = TRUE
    /\ max_logs_blocks \in MaxLogsChoices
    /\ overflow_checks \in BOOLEAN
    /\ pool = {}
    /\ calls = <<>>
    /\ reply = NoReply
    /\ lg = LgIdle

NextLogs ==
    \/ \E from_block \in FromBlocks, to_block \in ToBlocks,
          up1 \in UpBlockNumbers, up2 \in UpBlockNumbers :
          /\ (up1 # None /\ up2 # None) => Unwrap(up1) <= Unwrap(up2)
          /\ logs(from_block, to_block, up1, up2)
    \/ logs_spawn
    \/ \E i \in DOMAIN lg.collector :
          \E found \in TaskEnds(lg.collector[i].from, lg.collector[i].to) :
             get_logs_task(i, found)
    \/ logs_join
    \/ \E from \in FromNums, to \in ToNums :
          \E found \in Found(from, to) : basic_logs(from, to, found)

SpecLogs == InitLogs /\ [][NextLogs]_vars

(***************************************************************************)
(* Claims about the log side.                                              *)
(***************************************************************************)
\* both endpoints of the request were resolved to block numbers
Resolved ==
    /\ lg.pc # "idle"
    /\ ~(lg.pc = "done" /\ lg.collector = <<>>
           /\ lg.ret.kind \in {"BlockNotFound", "NativeRpcError"})

\* the request passed both range checks of the bridge
AcceptedByCode ==
    \/ lg.pc \in {"plan", "join"}
    \/ lg.pc = "done" /\ lg.collector # <<>>

LatestOrAbsent(b) == IF b \in {None, Some(Rel("latest"))} THEN 1 ELSE 0

SubQueries == Len(lg.collector)

\* ceil((to - from + 1) / 2001)
ExpectedSubQueries ==
    (lg.ending_block - lg.starting_block + 1 + MAX_NUM_BLOCKS_IN_BATCH)
        \div (MAX_NUM_BLOCKS_IN_BATCH + 1)

\* C5 as stated: an inverted range fails with InvalidBlocksRange{.., None}
\* and no upstream call at all is issued for the request.
C5_NoUpstreamCall ==
    (Resolved /\ lg.ending_block < lg.starting_block) =>
        /\ lg.pc = "done"
        /\ lg.ret = InvalidBlocksRange(lg.starting_block, lg.ending_block, None)
        /\ lg.collector = <<>>
        /\ lg.upstream = <<>>

\* C5 as amended: an inverted range fails with InvalidBlocksRange{starting,
\* ending, None} and no eth_getLogs sub-query is issued; the only upstream
\* calls are the eth_blockNumber calls that resolve the endpoints given as
\* latest or absent, one for each.
C5_NoSubQuery ==
    (Resolved /\ lg.ending_block < lg.starting_block) =>
        /\ lg.pc = "done"
        /\ lg.ret = InvalidBlocksRange(lg.starting_block, lg.ending_block, None)
        /\ lg.collector = <<>>
        /\ Len(lg.upstream) = LatestOrAbsent(lg.from_block) + LatestOrAbsent(lg.to_block)
        /\ \A i \in DOMAIN lg.upstream : lg.upstream[i] = "EthBlockNumber"

C5_Witness ==
    /\ lg.pc = "done"
    /\ lg.from_block = Some(Rel("latest"))
    /\ lg.to_block = Some(Num(9))
    /\ lg.ret = InvalidBlocksRange(10, 9, None)
    /\ lg.upstream = <<"EthBlockNumber">>

\* C6: with from <= to the request fails with InvalidBlocksRange{from, to,
\* Some(max_logs_blocks)}, and no sub-query, exactly when
\* to > from + max_logs_blocks; otherwise it is accepted.
C6_TooLargeExactly ==
    (Resolved /\ lg.starting_block <= lg.ending_block) =>
        IF lg.ending_block > lg.starting_block + max_logs_blocks
        THEN /\ lg.pc = "done"
             /\ lg.ret = InvalidBlocksRange(lg.starting_block, lg.ending_block,
                                            Some(max_logs_blocks))
             /\ lg.collector = <<>>
        ELSE /\ lg.pc # "panicked"
             /\ lg.ret.kind # "InvalidBlocksRange"

\* C7: an accepted request issues exactly ceil((to - from + 1) / 2001)
\* sub-queries: never more, and that many once the chunk loop has ended.
C7_SubQueryCount ==
    AcceptedByCode =>
        /\ SubQueries <= ExpectedSubQueries
        /\ lg.pc \in {"join", "done"} => SubQueries = ExpectedSubQueries

\* C8: the sub-ranges are ascending, disjoint, inside [from, to], leave no
\* block of [from, to] uncovered, and each but the last spans 2000.
C8_SubRanges ==
    AcceptedByCode =>
        LET c == lg.collector
            n == Len(lg.collector) IN
        /\ n >= 1 => c[1].from = lg.starting_block
        /\ \A i \in 1..n :
              /\ lg.starting_block <= c[i].from
              /\ c[i].from <= c[i].to
              /\ c[i].to <= lg.ending_block
              /\ c[i].to - c[i].from <= MAX_NUM_BLOCKS_IN_BATCH
        /\ \A i \in 1..(n - 1) :
              /\ c[i].to - c[i].from = MAX_NUM_BLOCKS_IN_BATCH
              /\ c[i + 1].from = c[i].to + 1
        /\ lg.pc \in {"join", "done"} => (n >= 1 /\ c[n].to = lg.ending_block)

RECURSIVE ConcatLogs(_, _)
ConcatLogs(c, n) == IF n = 0 THEN <<>> ELSE ConcatLogs(c, n - 1) \o c[n].res.logs

\* C9: the result is the concatenation of the sub-query results in ascending
\* range order, each in its own order, whatever order they completed in; if a
\* sub-query failed, the request fails with the error of the lowest-range
\* failing sub-query and returns no logs.
C9_JoinOrder ==
    (lg.pc = "done" /\ lg.collector # <<>>) =>
        LET c == lg.collector
            failed == {i \in DOMAIN c : c[i].res.kind \notin {"Ok", "running"}} IN
        IF lg.ret.kind = "Ok"
        THEN /\ \A i \in DOMAIN c : c[i].res.kind = "Ok"
             /\ lg.ret.logs = ConcatLogs(c, Len(c))
        ELSE /\ lg.ret.logs = <<>>
             /\ \E j \in failed :
                   /\ \A i \in 1..(j - 1) : c[i].res.kind = "Ok"
                   /\ lg.ret.starting = c[j].from
                   /\ lg.ret.kind = IF c[j].res.kind = "JoinError" THEN "RuntimeError"
                                    ELSE c[j].res.kind

C9_Witness ==
    /\ lg.pc = "done"
    /\ lg.ret.kind = "Ok"
    /\ Len(lg.collector) = 3
    /\ lg.out_of_order
    /\ lg.ret.logs = << <<2000, 1>>, <<0, 0>>, <<4001, 1>>, <<2001, 0>>,
                        <<4002, 1>>, <<4002, 0>> >>

\* C10: the core refuses a range exactly when to > from + 2000, with
\* InvalidBlocksRange{batch_size: Some(2000)}, and every sub-query the bridge
\* sends is within that limit and is never refused by the core for its size.
C10_CoreLimit ==
    /\ reply.method = "core_logs" =>
          (reply.ret = InvalidBlocksRange(reply.from, reply.to, Some(MAX_NUM_BLOCKS))
             <=> reply.to > reply.from + MAX_NUM_BLOCKS)
    /\ \A i \in DOMAIN lg.collector :
          /\ lg.collector[i].to <= lg.collector[i].from + MAX_NUM_BLOCKS
          /\ lg.collector[i].res.kind \notin {"CoreInvalidBlocksRange", "CorePanic"}

(***************************************************************************)
(* The core node: ledger reads of BasicErpcImpl.                           *)
(***************************************************************************)
CoreRes(kind, val) == [kind |-> kind, val |-> val]

\* A core request is followed once the previous one was answered and its reply
\* taken; the requests only read the ledger.
CoreReady == core.req = NoReq /\ reply = NoReply

\* the replay stage stores block n of fork f, replacing what was at n
store_block(n, f) ==
    /\ core.blocks[n] # f
    /\ \A m \in BlockNums : m < n => core.blocks[m] # "none"
    /\ core' = [core EXCEPT !.blocks[n] = f, !.index = @ \cup {hash(Block(n, f))}]
    /\ reply' = NoReply
    /\ UNCHANGED <<cfgVars, cf, hx, pool, calls, lg>>

\* BasicErpcImpl::balance (storage_at, transaction_count and code resolve alike)
balance(address, block) ==
    /\ CoreReady
    /\ LET root == block_to_state_root(core, block) IN
       reply' = [method |-> "balance", block |-> block,
                 ret |-> IF root = None THEN CoreRes("BlockNotFound", <<>>)
                         ELSE CoreRes("Ok", <<Unwrap(root), address>>)]
    /\ UNCHANGED <<cfgVars, cf, hx, core, pool, calls, lg>>

\* BasicErpcImpl::block_number
basic_block_number ==
    /\ CoreReady
    /\ LET block == IF block_parse_confirmed_num(core, None) # None
                    THEN Unwrap(block_parse_confirmed_num(core, None))
                    ELSE 0
       IN  reply' = [method |-> "block_number", block |-> None,
                     ret |-> CoreRes("Ok", <<block>>)]
    /\ UNCHANGED <<cfgVars, cf, hx, core, pool, calls, lg>>

\* RPCTransaction::new_from_receipt for the transaction of block b
new_from_receipt(tx_hash, n, block_hash) ==
    [hash |-> Some(tx_hash), to |-> Some("contract"), input |-> "",
     fails |-> FALSE, block_number |-> Some(n), block_hash |-> Some(block_hash),
     transaction_index |-> Some(0)]

\* BasicErpcImpl::block_by_number
block_by_number(c, block, full) ==
    LET num == block_parse_confirmed_num(c, Some(block))
        found == IF num = None THEN None ELSE get_evm_block_by_id(c, Unwrap(num))
    IN  IF found = None THEN None
        ELSE LET b == Unwrap(found) IN
             Some([number |-> b.number, hash |-> hash(b), full |-> full,
                   transactions |->
                      IF full
                      THEN <<new_from_receipt(tx_hash_of(b), b.number, hash(b))>>
                      ELSE <<tx_hash_of(b)>>])

basic_block_by_number(block, full) ==
    /\ CoreReady
    /\ reply' = [method |-> "block_by_number", block |-> block,
                 ret |-> block_by_number(core, block, full)]
    /\ UNCHANGED <<cfgVars, cf, hx, core, pool, calls, lg>>

\* BasicErpcImpl::block_by_hash up to its call of block_by_number: the number is
\* looked up and the block stored at it is compared with the requested hash
block_by_hash(block_hash, full) ==
    /\ CoreReady
    /\ LET id == get_evm_block_id_by_hash(core, block_hash)
           found == IF id = None THEN None ELSE get_evm_block_by_id(core, Unwrap(id))
       IN  IF found # None /\ hash(Unwrap(found)) = block_hash
           THEN /\ core' = [core EXCEPT !.req = [op |-> "block_by_hash",
                                                 block_hash |-> block_hash,
                                                 b |-> Unwrap(id), full |-> full]]
                /\ reply' = NoReply
           ELSE /\ reply' = [method |-> "block_by_hash", block_hash |-> block_hash,
                             ret |-> None]
                /\ UNCHANGED core
    /\ UNCHANGED <<cfgVars, cf, hx, pool, calls, lg>>

\* the tail of block_by_hash: self.block_by_number(meta, block.into(), full)
\* reads the block stored at the number a second time
block_by_hash_number ==
    /\ core.req.op = "block_by_hash"
    /\ reply' = [method |-> "block_by_hash", block_hash |-> core.req.block_hash,
                 ret |-> block_by_number(core, Num(core.req.b), core.req.full)]
    /\ core' = [core EXCEPT !.req = NoReq]
    /\ UNCHANGED <<cfgVars, cf, hx, pool, calls, lg>>

\* meta.get_evm_receipt_by_hash : the block number recorded for a transaction
get_evm_receipt_by_hash(c, tx_hash) ==
    IF (tx_hash - 200) \in c.index THEN Some((tx_hash - 200) \div 2) ELSE None

\* BasicErpcImpl::transaction_by_hash
transaction_by_hash(c, tx_hash) ==
    LET receipt == get_evm_receipt_by_hash(c, tx_hash) IN
    IF receipt = None THEN CoreRes("Ok", None)
    ELSE LET found == get_evm_block_by_id(c, Unwrap(receipt)) IN
         IF found = None THEN CoreRes("BlockNotFound", None)
         ELSE CoreRes("Ok", Some(new_from_receipt(tx_hash, Unwrap(receipt),
                                                   hash(Unwrap(found)))))

(***************************************************************************)
(* The speculative executor of the core.                                   *)
(***************************************************************************)
MaxTxs == 2        \* transactions in one trace_call_many

ETH_TO_VLX_ADDR == "ETH_TO_VLX_ADDR"
Pubkeys == {"k1", "k2"}

\* Pubkey::from_str
from_str(s) == IF s \in Pubkeys THEN Some(s) ELSE None
\* ETH_TO_VLX_CODE.parse_abi
parse_abi(input) == IF input = "transferToNative(k2)" THEN Some("k2") ELSE None
\* bank.get_account(&pk).unwrap_or_default()
get_account(pk) == <<"account", pk>>
\* KeyedAccount::new(pk, is_signer, account)
KeyedAccount(pk, is_signer, account) ==
    [pk |-> pk, is_signer |-> is_signer, account |-> account]

default_meta ==
    [meta_keys |-> None, transaction_hash |-> None, transaction_index |-> None,
     block_hash |-> None, block_number |-> None]

\* the meta keys of a request, parsed; None when one of them does not parse
parse_meta_keys(meta_keys) ==
    LET keys == IF meta_keys = None THEN <<>> ELSE Unwrap(meta_keys) IN
    IF \E i \in DOMAIN keys : from_str(keys[i]) = None THEN None
    ELSE Some([i \in DOMAIN keys |-> Unwrap(from_str(keys[i]))])

\* the accounts call_inner hands to simulation_entrypoint
user_accounts_of(tx, meta_keys) ==
    LET loaded == [i \in DOMAIN meta_keys |->
                      KeyedAccount(meta_keys[i], FALSE, get_account(meta_keys[i]))]
    IN  IF tx.to # None
        THEN IF Unwrap(tx.to) = ETH_TO_VLX_ADDR /\ parse_abi(tx.input) # None
             THEN Append(loaded, KeyedAccount(Unwrap(parse_abi(tx.input)), FALSE,
                                              get_account(Unwrap(parse_abi(tx.input)))))
             ELSE loaded
        ELSE <<>>

\* call_inner : one transaction on the executor; `executor` is the root the state
\* was forked at and the transactions applied to it so far
call_inner(executor, tx, meta_keys) ==
    IF tx.fails
    THEN [err |-> TRUE, executor |-> executor,
          out |-> [root |-> executor.root, before |-> executor.applied, tx |-> tx,
                   user_accounts |-> user_accounts_of(tx, meta_keys)]]
    ELSE [err |-> FALSE,
          executor |-> [executor EXCEPT !.applied = Append(@, tx)],
          out |-> [root |-> executor.root, before |-> executor.applied, tx |-> tx,
                   user_accounts |-> user_accounts_of(tx, meta_keys)]]

RECURSIVE call_many_loop(_, _, _, _)
\* the loop of call_many from transaction i on; `result` holds the earlier outputs
call_many_loop(executor, txs, i, result) ==
    IF i > Len(txs) THEN CoreRes("Ok", result)
    ELSE LET r == call_inner(executor, txs[i].tx, txs[i].meta_keys) IN
         IF r.err THEN CoreRes("EvmStateError", Append(result, r.out))
         ELSE call_many_loop(r.executor, txs, i + 1, Append(result, r.out))

\* call_many; `root_known` tells whether the state at saved_root is held locally.
\* The value of an error holds what was executed until the error.
call_many(txs, saved_root, root_known) ==
    IF saved_root # None /\ ~root_known THEN CoreRes("StateRootNotFound", <<>>)
    ELSE call_many_loop([root |-> saved_root, applied |-> <<>>], txs, 1, <<>>)

\* the result entry trace_call_many builds for one transaction
zip_entry(trace, meta_tx) ==
    [output |-> [root |-> trace.root, before |-> trace.before, tx |-> trace.tx],
     transaction_hash |-> meta_tx.transaction_hash,
     transaction_index |-> meta_tx.transaction_index,
     block_hash |-> meta_tx.block_hash,
     block_number |-> meta_tx.block_number]

\* mutant: the meta array is zipped in reverse
zip_reversed(traces, txs_meta) ==
    [i \in DOMAIN traces |-> zip_entry(traces[i], txs_meta[Len(txs_meta) + 1 - i])]

\* traces.zip(txs_meta)
zip(traces, txs_meta) ==
    [i \in DOMAIN traces |-> zip_entry(traces[i], txs_meta[i])]

\* BasicErpcImpl::trace_call_many; `executed` is what reached the executor
trace_call_many(c, tx_traces, block, root_known) ==
    LET saved_root == block_to_state_root(c, block)
        txs_meta == [i \in DOMAIN tx_traces |->
                        IF tx_traces[i].meta = None THEN default_meta
                        ELSE Unwrap(tx_traces[i].meta)]
        parsed == [i \in DOMAIN tx_traces |-> parse_meta_keys(txs_meta[i].meta_keys)]
    IN  IF saved_root = None
        THEN [res |-> CoreRes("BlockNotFound", <<>>), executed |-> <<>>]
        ELSE IF \E i \in DOMAIN parsed : parsed[i] = None
        THEN [res |-> CoreRes("NativeRpcError", <<>>), executed |-> <<>>]
        ELSE LET txs == [i \in DOMAIN tx_traces |->
                            [tx |-> tx_traces[i].tx, meta_keys |-> Unwrap(parsed[i])]]
                 traces == call_many(txs, saved_root, root_known)
             IN  IF traces.kind # "Ok"
                 THEN [res |-> CoreRes(traces.kind, <<>>), executed |-> traces.val]
                 ELSE [res |-> CoreRes("Ok", zip(traces.val, txs_meta)),
                       executed |-> traces.val]

\* BasicErpcImpl::trace_call
trace_call(c, tx, block, meta_info, root_known) ==
    LET r == trace_call_many(c, <<[tx |-> tx, meta |-> meta_info]>>, block, root_known)
    IN  IF r.res.kind = "Ok"
        THEN [res |-> CoreRes("Ok", Some(r.res.val[1])), executed |-> r.executed]
        ELSE [res |-> CoreRes(r.res.kind, None), executed |-> r.executed]

\* BasicErpcImpl::trace_replay_transaction
trace_replay_transaction(c, tx_hash, meta_info, root_known) ==
    LET found == transaction_by_hash(c, tx_hash) IN
    IF found.kind # "Ok" THEN [res |-> found, executed |-> <<>>]
    ELSE IF found.val = None THEN [res |-> CoreRes("Ok", None), executed |-> <<>>]
    ELSE LET tx == Unwrap(found.val) IN
         IF tx.block_number = None
         THEN [res |-> CoreRes("Ok", None), executed |-> <<>>]
         ELSE LET block == Num(Unwrap(tx.block_number))
                  m == [(IF meta_info = None THEN default_meta ELSE Unwrap(meta_info))
                           EXCEPT !.transaction_hash = tx.hash,
                                  !.transaction_index = tx.transaction_index,
                                  !.block_number = tx.block_number,
                                  !.block_hash = tx.block_hash]
              IN  trace_call(c, tx, Some(block), Some(m), root_known)

\* the eth_call handler: BasicErpcImpl::call over call and call_many
call(c, tx, block, meta_keys, root_known) ==
    LET parsed == parse_meta_keys(meta_keys)
        saved_root == block_to_state_root(c, block)
    IN  IF saved_root = None
        THEN [res |-> CoreRes("BlockNotFound", <<>>), executed |-> <<>>]
        ELSE IF parsed = None
        THEN [res |-> CoreRes("NativeRpcError", <<>>), executed |-> <<>>]
        ELSE LET r == call_many(<<[tx |-> tx, meta_keys |-> Unwrap(parsed)]>>,
                                saved_root, root_known)
             IN  [res |-> CoreRes(r.kind, <<>>), executed |-> r.val]

basic_trace_call_many(tx_traces, block, root_known) ==
    /\ CoreReady
    /\ LET r == trace_call_many(core, tx_traces, block, root_known) IN
       reply' = [method |-> "trace_call_many", tx_traces |-> tx_traces, block |-> block,
                 ret |-> r.res, executed |-> r.executed]
    /\ UNCHANGED <<cfgVars, cf, hx, core, pool, calls, lg>>

basic_trace_replay_transaction(tx_hash, meta_info, root_known) ==
    /\ CoreReady
    /\ LET r == trace_replay_transaction(core, tx_hash, meta_info, root_known) IN
       reply' = [method |-> "trace_replay_transaction", tx_hash |-> tx_hash,
                 ret |-> r.res, executed |-> r.executed]
    /\ UNCHANGED <<cfgVars, cf, hx, core, pool, calls, lg>>

basic_call(tx, block, meta_keys, root_known) ==
    /\ CoreReady
    /\ LET r == call(core, tx, block, meta_keys, root_known) IN
       reply' = [method |-> "call", tx |-> tx, block |-> block, meta_keys |-> meta_keys,
                 ret |-> r.res, executed |-> r.executed]
    /\ UNCHANGED <<cfgVars, cf, hx, core, pool, calls, lg>>

(***************************************************************************)
(* Specification of the core node.  One core request is followed at a      *)
(* time; the ledger changes between and during requests.                   *)
(***************************************************************************)
CoreBlocks ==
    {None, Some(Rel("latest")), Some(Rel("pending")), Some(Rel("earliest"))}
    \cup {Some(Num(n)) : n \in 0..MaxBlock}
    \cup {Some(BlockHash(h)) : h \in BlockHashes \cup {UnknownHash}}
TraceBlocks == {None, Some(Num(1)), Some(BlockHash(3))}
TxHashes == {tx_hash_of(Block(n, f)) : n \in BlockNums, f \in Forks}

CallTxs ==
    [hash : {None}, to : {None, Some("contract"), Some(ETH_TO_VLX_ADDR)},
     input : {"", "transferToNative(k2)"}, fails : BOOLEAN,
     block_number : {None}, block_hash : {None}, transaction_index : {None}]
TraceTxs == {t \in CallTxs : t.input = "" /\ t.to # Some(ETH_TO_VLX_ADDR)
                             /\ (t.fails => t.to # None)}
MetaKeyInputs == {None, Some(<<"k1">>), Some(<<"k2", "k1">>), Some(<<"bad">>)}
MetaInputs ==
    {None,
     Some([default_meta EXCEPT !.meta_keys = Some(<<"k1">>),
                               !.transaction_hash = Some(7),
                               !.transaction_index = Some(1)]),
     Some([default_meta EXCEPT !.meta_keys = Some(<<"bad">>)])}
TxTrace == [tx : TraceTxs, meta : MetaInputs]
\* the later entries of a request are calls with a meta, failing or not
LaterTxTrace == {e \in TxTrace : e.meta # None /\ e.tx.to # None}
TxTraces ==
    {t \in UNION {[1..n -> TxTrace] : n \in 0..MaxTxs} :
        \A i \in DOMAIN t : i > 1 => t[i] \in LaterTxTrace}

InitCore ==
    /\ cf = CfIdle
    /\ hx = HxIdle
    /\ min_gas_price = Gwei
    /\ args_min_gas_price = Some(Gwei)
    /\ main_pc = "running"
    /\ verbose_errors = FALSE
    /\ simulate = TRUE
    /\ max_logs_blocks = 500
    /\ overflow_checks = FALSE
    /\ pool = {}
    /\ calls = <<>>
    /\ reply = NoReply
    /\ lg = LgIdle
    /\ core = CoreInit

NextCore ==
    \/ \E n \in BlockNums, f \in Forks : store_block(n, f)
    \/ \E block \in CoreBlocks : balance("A", block)
    \/ basic_block_number
    \/ \E block \in CoreBlocks, full \in BOOLEAN :
          block # None /\ basic_block_by_number(Unwrap(block), full)
    \/ \E h \in BlockHashes \cup {UnknownHash}, full \in BOOLEAN : block_by_hash(h, full)
    \/ block_by_hash_number
    \/ \E tx_traces \in TxTraces, block \in TraceBlocks, root_known \in BOOLEAN :
          basic_trace_call_many(tx_traces, block, root_known)
    \/ \E tx_hash \in TxHashes \cup {200 + UnknownHash}, root_known \in BOOLEAN :
          basic_trace_replay_transaction(tx_hash, None, root_known)
    \/ \E tx \in CallTxs, block \in TraceBlocks, meta_keys \in MetaKeyInputs,
          root_known \in BOOLEAN : basic_call(tx, block, meta_keys, root_known)

SpecCore == InitCore /\ [][NextCore]_vars

(***************************************************************************)
(* Claims about the core node.                                             *)
(***************************************************************************)
\* C11: `pending` resolves as `latest` does in block_to_state_root and
\* block_parse_confirmed_num of the core and in block_to_number of the bridge:
\* same number, same root or same error, in every state.
C11_LatestPendingSame ==
    /\ block_to_state_root(core, Some(Rel("pending")))
          = block_to_state_root(core, Some(Rel("latest")))
    /\ block_parse_confirmed_num(core, Some(Rel("pending")))
          = block_parse_confirmed_num(core, Some(Rel("latest")))
    /\ \A upstream \in UpBlockNumbers :
          block_to_number(Some(Rel("pending")), upstream)
             = block_to_number(Some(Rel("latest")), upstream)

\* C12: a block-hash identifier never yields another block than the one asked
\* for: block_to_state_root gives the root of a stored block with that hash or
\* None, and block_by_hash answers with a block of that hash, stored at its
\* number when the answer is given, or with no block.
C12_NoReorgedBlock ==
    /\ \A h \in BlockHashes \cup {UnknownHash} :
          LET root == block_to_state_root(core, Some(BlockHash(h))) IN
          root # None =>
             \E n \in StoredNums(core) :
                /\ hash(Block(n, core.blocks[n])) = h
                /\ root = Some(state_root(Block(n, core.blocks[n])))
    /\ (reply.method = "block_by_hash" /\ reply.ret # None) =>
          /\ Unwrap(reply.ret).hash = reply.block_hash
          /\ \E n \in StoredNums(core) : hash(Block(n, core.blocks[n])) = reply.block_hash

\* C13: trace_replay_transaction(h) executes the transaction recorded in block B
\* on the state root of block B - 1, and for a hash without a receipt it answers
\* absent and executes nothing.
C13_ReplayOnParent ==
    reply.method = "trace_replay_transaction" =>
       LET receipt == get_evm_receipt_by_hash(core, reply.tx_hash) IN
       /\ receipt = None => (reply.ret = CoreRes("Ok", None) /\ reply.executed = <<>>)
       /\ \A i \in DOMAIN reply.executed :
             LET parent == get_evm_block_by_id(core, Unwrap(receipt) - 1) IN
             /\ parent # None
             /\ reply.executed[i].root = Some(state_root(Unwrap(parent)))

\* meta of the i-th input of the answered trace_call_many
MetaOf(i) ==
    IF reply.tx_traces[i].meta = None THEN default_meta
    ELSE Unwrap(reply.tx_traces[i].meta)

\* the transactions before the i-th input of the answered trace_call_many
TxsBefore(i) == [j \in 1..(i - 1) |-> reply.tx_traces[j].tx]

\* C14: an answered trace_call_many has one entry per input; entry i carries
\* the output of input i, executed after inputs 1..i-1 on the one state forked at
\* the resolved root, and the meta of input i; an executor error or a meta key
\* that does not parse fails the call and no list is returned.
C14_Positional ==
    reply.method = "trace_call_many" =>
       LET in == reply.tx_traces
           r == reply.ret
           root == block_to_state_root(core, reply.block)
       IN  /\ r.kind = "Ok" =>
                /\ Len(r.val) = Len(in)
                /\ \A i \in DOMAIN in :
                      /\ r.val[i].output = [root |-> root, before |-> TxsBefore(i),
                                            tx |-> in[i].tx]
                      /\ r.val[i].transaction_hash = MetaOf(i).transaction_hash
                      /\ r.val[i].transaction_index = MetaOf(i).transaction_index
                      /\ r.val[i].block_hash = MetaOf(i).block_hash
                      /\ r.val[i].block_number = MetaOf(i).block_number
           /\ r.kind # "Ok" => r.val = <<>>
           /\ (\E i \in DOMAIN in : in[i].tx.fails
                                    \/ parse_meta_keys(MetaOf(i).meta_keys) = None)
                 => r.kind # "Ok"
           /\ \A i \in DOMAIN reply.executed :
                 /\ reply.executed[i].tx = in[i].tx
                 /\ reply.executed[i].before = TxsBefore(i)
                 /\ reply.executed[i].root = root

C14_Witness ==
    /\ reply.method = "trace_call_many"
    /\ reply.ret.kind = "Ok"
    /\ Len(reply.ret.val) = 2
    /\ reply.ret.val[1].transaction_hash # reply.ret.val[2].transaction_hash
    /\ reply.tx_traces[1].tx # reply.tx_traces[2].tx

\* C15: every meta key given with a speculative call reaches the precompile
\* entrypoint as a loaded account with is_signer = FALSE, for a Call and for a
\* Create alike; the account named by a parsable transfer to ETH_TO_VLX_ADDR
\* is appended, and nothing is appended when the input does not parse.
C15_MetaKeysPassed ==
    reply.method = "call" =>
       \A i \in DOMAIN reply.executed :
          LET e == reply.executed[i]
              keys == Unwrap(parse_meta_keys(reply.meta_keys))
              loaded == [k \in DOMAIN keys |->
                            KeyedAccount(keys[k], FALSE, get_account(keys[k]))]
              native == e.tx.to = Some(ETH_TO_VLX_ADDR) /\ parse_abi(e.tx.input) # None
          IN  e.user_accounts =
                 IF native
                 THEN Append(loaded, KeyedAccount(Unwrap(parse_abi(e.tx.input)), FALSE,
                                get_account(Unwrap(parse_abi(e.tx.input)))))
                 ELSE loaded

(***************************************************************************)
(* The bridge as a proxy: errors of the upstream client, compatibility     *)
(* patches, start of the process.                                          *)
(***************************************************************************)
MaxBlockTxs == 2   \* transactions in a block answered by the upstream
MaxLogLines == 3   \* log lines of a failed preflight

\* a string built from lines and separators is the sequence of its pieces
Message(text) == <<text>>

RECURSIVE slice_join(_, _)
\* [String]::join(sep)
slice_join(lines, sep) ==
    IF Len(lines) = 0 THEN <<>>
    ELSE IF Len(lines) = 1 THEN <<lines[1]>>
    ELSE <<lines[1], sep>> \o slice_join(Tail(lines), sep)

NoClientError ==
    [kind |-> "none", code |-> 0, message |-> <<>>, data_kind |-> "Empty",
     err |-> "none", logs |-> None, original_err |-> None]

NoError ==
    [kind |-> "none", code |-> 0, message |-> <<>>, data |-> None, verbose |-> FALSE]
ProxyRpcError(code, message, data) ==
    [kind |-> "ProxyRpcError", code |-> code, message |-> message, data |-> data,
     verbose |-> FALSE]
NativeRpcError(verbose) ==
    [kind |-> "NativeRpcError", code |-> 0, message |-> <<>>, data |-> None,
     verbose |-> verbose]

\* mutant: the first two log lines replace the message
from_client_error_first_logs(client_error) ==
    IF client_error.kind = "RpcResponseError"
    THEN IF /\ client_error.data_kind = "SendTransactionPreflightFailure"
            /\ client_error.err = "InstructionError"
            /\ client_error.logs # None
            /\ Len(Unwrap(client_error.logs)) # 0
         THEN LET log_lines == Unwrap(client_error.logs)
              IN  ProxyRpcError(client_error.code,
                                slice_join(SubSeq(log_lines, 1, Min2(2, Len(log_lines))), ";"),
                                client_error.original_err)
         ELSE ProxyRpcError(client_error.code, client_error.message,
                            client_error.original_err)
    ELSE NativeRpcError(FALSE)

\* from_client_error
from_client_error(client_error) ==
    IF client_error.kind = "RpcResponseError"
    THEN IF /\ client_error.data_kind = "SendTransactionPreflightFailure"
            /\ client_error.err = "InstructionError"
            /\ client_error.logs # None
            /\ Len(Unwrap(client_error.logs)) # 0
         THEN LET log_lines == Unwrap(client_error.logs)
                  first_entry == saturating_sub(Len(log_lines), 2)
                  last_log == slice_join(SubSeq(log_lines, first_entry + 1, Len(log_lines)), ";")
              IN  ProxyRpcError(client_error.code, last_log, client_error.original_err)
         ELSE ProxyRpcError(client_error.code, client_error.message,
                            client_error.original_err)
    ELSE NativeRpcError(FALSE)

\* answers of RpcClient::send
UpOk(val) == [kind |-> "Ok", val |-> val, err |-> NoClientError]
UpErr(e) == [kind |-> "Err", val |-> None, err |-> e]

\* proxy_evm_rpc! : the answer of the upstream, its error converted
proxy_evm_rpc(upstream) ==
    IF upstream.kind = "Err"
    THEN [kind |-> "Err", val |-> None, error |-> from_client_error(upstream.err)]
    ELSE [kind |-> "Ok", val |-> upstream.val, error |-> NoError]

ZeroH256 == 0
empty_trie_hash == 1000

\* mutant: only a zero r is replaced
patch_tx_r_only(tx) ==
    IF UnwrapOrDefault(tx.r) = 0 THEN [tx EXCEPT !.r = Some(1)] ELSE tx

\* compatibility::patch_tx
patch_tx(tx) ==
    LET tx1 == IF UnwrapOrDefault(tx.r) = 0 THEN [tx EXCEPT !.r = Some(1)] ELSE tx
    IN  IF UnwrapOrDefault(tx1.s) = 0 THEN [tx1 EXCEPT !.s = Some(1)] ELSE tx1

\* mutant: the receipts root is left as it was
patch_block_keeps_receipts_root(block) ==
    IF Len(block.transactions) = 0 /\ block.transactions_root = ZeroH256
    THEN [block EXCEPT !.transactions_root = empty_trie_hash]
    ELSE IF block.full
    THEN [block EXCEPT !.transactions = [i \in DOMAIN @ |-> patch_tx(@[i])]]
    ELSE block

\* compatibility::patch_block; `full` tells Either::Right (transactions) from
\* Either::Left (hashes)
patch_block(block) ==
    LET txs_empty == Len(block.transactions) = 0 IN
    IF txs_empty /\ block.transactions_root = ZeroH256
    THEN [block EXCEPT !.transactions_root = empty_trie_hash,
                       !.receipts_root = empty_trie_hash]
    ELSE IF block.full
    THEN [block EXCEPT !.transactions = [i \in DOMAIN @ |-> patch_tx(@[i])]]
    ELSE block

\* .map(|o| o.map(compatibility::patch_block)) over the answer of the proxy
map_patch_block(r) ==
    IF r.kind = "Ok" /\ r.val # None
    THEN [r EXCEPT !.val = Some(patch_block(Unwrap(r.val)))]
    ELSE r

\* .map(|o| o.map(compatibility::patch_tx)) over the answer of the proxy
map_patch_tx(r) ==
    IF r.kind = "Ok" /\ r.val # None
    THEN [r EXCEPT !.val = Some(patch_tx(Unwrap(r.val)))]
    ELSE r

\* RPCBlock::default()
default_block ==
    [number |-> 0, hash |-> ZeroH256, transactions_root |-> ZeroH256,
     receipts_root |-> ZeroH256, full |-> FALSE, transactions |-> <<>>]

\* ChainErpcProxy::block_by_hash
proxy_block_by_hash(block_hash, full, upstream) ==
    /\ main_pc = "running" /\ reply = NoReply
    /\ reply' = [method |-> "eth_getBlockByHash", full |-> full,
                 upstream |-> IF block_hash = ZeroH256 THEN UpOk(None) ELSE upstream,
                 called |-> block_hash # ZeroH256,
                 ret |-> IF block_hash = ZeroH256
                         THEN [kind |-> "Ok", val |-> Some(default_block), error |-> NoError]
                         ELSE map_patch_block(proxy_evm_rpc(upstream))]
    /\ UNCHANGED <<cfgVars, cf, hx, core, pool, calls, lg>>

\* ChainErpcProxy::block_by_number
proxy_block_by_number(block, full, upstream) ==
    /\ main_pc = "running" /\ reply = NoReply
    /\ reply' = [method |-> "eth_getBlockByNumber", full |-> full,
                 upstream |-> IF block = Num(0) THEN UpOk(None) ELSE upstream,
                 called |-> block # Num(0),
                 ret |-> IF block = Num(0)
                         THEN [kind |-> "Ok", val |-> Some(default_block), error |-> NoError]
                         ELSE map_patch_block(proxy_evm_rpc(upstream))]
    /\ UNCHANGED <<cfgVars, cf, hx, core, pool, calls, lg>>

\* RPCTransaction::from_transaction of a pooled transaction: it is signed
from_transaction(tx) == [hash |-> tx_id_hash(tx), r |-> Some(2), s |-> Some(3)]

\* ChainErpcProxy::transaction_by_hash
proxy_transaction_by_hash(tx_hash, upstream) ==
    /\ main_pc = "running" /\ reply = NoReply
    /\ LET pooled == {e \in pool : tx_id_hash(e.tx) = tx_hash} IN
       reply' = [method |-> "eth_getTransactionByHash", full |-> FALSE,
                 upstream |-> IF pooled # {} THEN UpOk(None) ELSE upstream,
                 called |-> pooled = {},
                 ret |-> IF pooled # {}
                         THEN [kind |-> "Ok",
                               val |-> Some(from_transaction((CHOOSE e \in pooled : TRUE).tx)),
                               error |-> NoError]
                         ELSE map_patch_tx(proxy_evm_rpc(upstream))]
    /\ UNCHANGED <<cfgVars, cf, hx, core, pool, calls, lg>>

\* GeneralErpcProxy::gas_price
gas_price ==
    /\ main_pc = "running" /\ reply = NoReply
    /\ reply' = [method |-> "eth_gasPrice", ret |-> min_gas_price]
    /\ UNCHANGED <<cfgVars, cf, hx, core, pool, calls, lg>>

\* the server writes the answer of the handler to the client
respond ==
    /\ reply # NoReply
    /\ reply' = NoReply
    /\ UNCHANGED <<cfgVars, cf, hx, core, pool, calls, lg>>

\* main up to EvmBridge::new : the minimal gas price is computed from the arguments
main(default_price) ==
    /\ main_pc = "args"
    /\ LET r == min_gas_price_or_default(args_min_gas_price, default_price) IN
       IF r.panic
       THEN main_pc' = "panicked" /\ UNCHANGED min_gas_price
       ELSE main_pc' = "running" /\ min_gas_price' = r.val
    /\ UNCHANGED <<simulate, max_logs_blocks, overflow_checks, verbose_errors,
                   args_min_gas_price, core, pool, calls, reply, lg, cf, hx>>

(***************************************************************************)
(* Specification of the proxy side.                                        *)
(***************************************************************************)
\* the greatest multiple of one gwei a U256 holds
MaxGweiMultiple == U256_MAX - (U256_MAX % Gwei)

PriceInputs ==
    {0, 1, Gwei - 1, Gwei, Gwei + 1, U256_MAX - Gwei, U256_MAX - Gwei + 1,
     U256_MAX - Gwei + 2, MaxGweiMultiple, U256_MAX}
\* values the nested min_gas_price() may have in a build
DefaultPrices == {0, 21, Gwei + 21}

SigValues == {None, Some(0), Some(7)}
UpstreamTxs == [hash : {<<"up", 1, 0>>}, r : SigValues, s : SigValues]
BlockTxs == {txs \in UNION {[1..n -> UpstreamTxs] : n \in 0..MaxBlockTxs} :
                \A i \in DOMAIN txs : i > 1 => txs[i] = [hash |-> <<"up", 1, 0>>,
                                                        r |-> Some(7), s |-> Some(0)]}
UpstreamBlocks ==
    [number : {5}, hash : {55}, transactions_root : {ZeroH256, 77},
     receipts_root : {ZeroH256, 88}, full : {TRUE}, transactions : BlockTxs]
    \cup
    [number : {5}, hash : {55}, transactions_root : {ZeroH256, 77},
     receipts_root : {ZeroH256, 88}, full : {FALSE},
     transactions : {<<>>, << <<"up", 1, 0>> >>}]

LogInputs ==
    {None} \cup {Some([i \in 1..n |-> IF i = 1 THEN "log1" ELSE IF i = 2 THEN "log2"
                                      ELSE "log3"]) : n \in 0..MaxLogLines}
ClientErrors ==
    [kind : {"RpcResponseError"}, code : {-32002}, message : {Message("preflight failed")},
     data_kind : {"SendTransactionPreflightFailure"},
     err : {"none", "InstructionError", "AccountInUse"},
     logs : LogInputs, original_err : {Some("raw")}]
    \cup
    [kind : {"RpcResponseError"}, code : {-32005}, message : {Message("node is behind")},
     data_kind : {"Empty", "NodeUnhealthy"}, err : {"none"}, logs : {None},
     original_err : {None, Some("raw")}]
    \cup
    [kind : {"Io", "Reqwest", "SerdeJson"}, code : {0}, message : {Message("failed")},
     data_kind : {"Empty"}, err : {"none"}, logs : {None}, original_err : {None}]

UpstreamErrors == {UpErr(e) : e \in ClientErrors}
BlockAnswers == {UpOk(None)} \cup {UpOk(Some(b)) : b \in UpstreamBlocks} \cup UpstreamErrors
TxAnswers == {UpOk(None)} \cup {UpOk(Some(t)) : t \in UpstreamTxs} \cup UpstreamErrors

PooledEntry == [tx |-> [sender |-> "A", nonce |-> 7, gas_price |-> Gwei], call |-> 0,
                state |-> "pending"]

InitProxy ==
    /\ cf = CfIdle
    /\ hx = HxIdle
    /\ main_pc = "args"
    /\ args_min_gas_price \in {None} \cup {Some(p) : p \in PriceInputs}
    /\ min_gas_price = 0
    /\ verbose_errors \in BOOLEAN
    /\ simulate = TRUE
    /\ max_logs_blocks = 500
    /\ overflow_checks = FALSE
    /\ pool \in {{}, {PooledEntry}}
    /\ calls = <<>>
    /\ reply = NoReply
    /\ lg = LgIdle
    /\ core = CoreInit

NextProxy ==
    \/ \E default_price \in DefaultPrices : main(default_price)
    \/ gas_price
    \/ \E block_hash \in {ZeroH256, 55}, full \in BOOLEAN, upstream \in BlockAnswers :
          (upstream.val # None => Unwrap(upstream.val).full = full)
          /\ proxy_block_by_hash(block_hash, full, upstream)
    \/ \E block \in {Num(0), Num(5), Rel("latest")}, full \in BOOLEAN,
          upstream \in BlockAnswers :
          (upstream.val # None => Unwrap(upstream.val).full = full)
          /\ proxy_block_by_number(block, full, upstream)
    \/ \E tx_hash \in {<<"up", 1, 0>>, tx_id_hash(PooledEntry.tx)}, upstream \in TxAnswers :
          proxy_transaction_by_hash(tx_hash, upstream)
    \/ respond

SpecProxy == InitProxy /\ [][NextProxy]_vars

(***************************************************************************)
(* Claims about the proxy side.                                            *)
(***************************************************************************)
\* the upstream answered the request with a value
Answered(method) ==
    /\ reply.method = method
    /\ reply.called
    /\ reply.upstream.kind = "Ok"
    /\ reply.upstream.val # None

BlockAnswered == Answered("eth_getBlockByHash") \/ Answered("eth_getBlockByNumber")

\* C16: a block without transactions whose transactionsRoot is zero is answered
\* with transactionsRoot and receiptsRoot both the empty-trie root and nothing
\* else changed; any other block keeps both roots; patching the answer again
\* changes nothing.
C16_PatchBlock ==
    BlockAnswered =>
       LET u == Unwrap(reply.upstream.val)
           p == Unwrap(reply.ret.val)
       IN  /\ (Len(u.transactions) = 0 /\ u.transactions_root = ZeroH256) =>
                 /\ p = [u EXCEPT !.transactions_root = empty_trie_hash,
                                  !.receipts_root = empty_trie_hash]
                 /\ p.receipts_root = p.transactions_root
           /\ ~(Len(u.transactions) = 0 /\ u.transactions_root = ZeroH256) =>
                 /\ p.transactions_root = u.transactions_root
                 /\ p.receipts_root = u.receipts_root
           /\ patch_block(p) = p

C16_Witness ==
    /\ BlockAnswered
    /\ Len(Unwrap(reply.upstream.val).transactions) = 0
    /\ Unwrap(reply.upstream.val).transactions_root = ZeroH256
    /\ Unwrap(reply.upstream.val).receipts_root # ZeroH256
    /\ Unwrap(reply.ret.val).receipts_root = empty_trie_hash

\* the pairs (upstream transaction, answered transaction) of the last reply
PatchedPairs ==
    IF Answered("eth_getTransactionByHash")
    THEN {<<Unwrap(reply.upstream.val), Unwrap(reply.ret.val)>>}
    ELSE IF BlockAnswered /\ reply.full
            /\ Len(Unwrap(reply.upstream.val).transactions) > 0
    THEN {<<Unwrap(reply.upstream.val).transactions[i],
            Unwrap(reply.ret.val).transactions[i]>> :
             i \in DOMAIN Unwrap(reply.upstream.val).transactions}
    ELSE {}

\* C17 as stated: r becomes 0x1 exactly when r is zero, s likewise, and
\* everything else is unchanged.
C17_OnlyZeroReplaced ==
    \A pair \in PatchedPairs :
       LET u == pair[1]
           p == pair[2]
       IN  /\ p.r = (IF u.r = Some(0) THEN Some(1) ELSE u.r)
           /\ p.s = (IF u.s = Some(0) THEN Some(1) ELSE u.s)
           /\ p.hash = u.hash

\* C17: every upstream transaction answered by transactionByHash and every
\* transaction of a full block with transactions has r = 0x1 exactly when r was
\* zero or absent, s likewise and independently; other values of r and s and
\* the other fields are unchanged; patching again changes nothing.
C17_PatchTx ==
    \A pair \in PatchedPairs :
       LET u == pair[1]
           p == pair[2]
       IN  /\ p.r = (IF u.r \in {None, Some(0)} THEN Some(1) ELSE u.r)
           /\ p.s = (IF u.s \in {None, Some(0)} THEN Some(1) ELSE u.s)
           /\ p.hash = u.hash
           /\ patch_tx(p) = p

C17_Witness ==
    \E pair \in PatchedPairs :
       /\ pair[1].r = None /\ pair[2].r = Some(1)
       /\ pair[1].s = Some(7) /\ pair[2].s = Some(7)

\* the upstream failed with a JSON-RPC error envelope
EnvelopeFailure ==
    /\ reply.method \in {"eth_getBlockByHash", "eth_getBlockByNumber",
                         "eth_getTransactionByHash"}
    /\ reply.called
    /\ reply.upstream.kind = "Err"
    /\ reply.upstream.err.kind = "RpcResponseError"

\* the upstream call failed otherwise (transport, parse)
NativeFailure ==
    /\ reply.method \in {"eth_getBlockByHash", "eth_getBlockByNumber",
                         "eth_getTransactionByHash"}
    /\ reply.called
    /\ reply.upstream.kind = "Err"
    /\ reply.upstream.err.kind # "RpcResponseError"

\* C18: an upstream error envelope is answered as ProxyRpcError with its code
\* and data; its message is kept, except for a failed preflight with an
\* InstructionError and at least one log line, whose message is the last two
\* log lines (the only one) joined by ";" in their order.
C18_ProxyRpcError ==
    EnvelopeFailure =>
       LET e == reply.upstream.err
           replaced == /\ e.data_kind = "SendTransactionPreflightFailure"
                       /\ e.err = "InstructionError"
                       /\ e.logs # None
                       /\ Len(Unwrap(e.logs)) > 0
           log_lines == Unwrap(e.logs)
           n == Len(log_lines)
       IN  /\ reply.ret.kind = "Err"
           /\ reply.ret.error.kind = "ProxyRpcError"
           /\ reply.ret.error.code = e.code
           /\ reply.ret.error.data = e.original_err
           /\ reply.ret.error.message =
                 IF replaced
                 THEN IF n = 1 THEN <<log_lines[1]>> ELSE <<log_lines[n - 1], ";", log_lines[n]>>
                 ELSE e.message

C18_Witness ==
    /\ EnvelopeFailure
    /\ reply.upstream.err.logs # None
    /\ Len(Unwrap(reply.upstream.err.logs)) = 3
    /\ reply.ret.error.message = <<"log2", ";", "log3">>

\* C19: a transport or parse failure of the upstream call is answered as
\* NativeRpcError, verbose exactly when --verbose-errors is set.
C19_VerboseNativeError ==
    NativeFailure =>
       /\ reply.ret.kind = "Err"
       /\ reply.ret.error.kind = "NativeRpcError"
       /\ reply.ret.error.verbose = verbose_errors

\* p rounded up to the next gwei is r
RoundedUp(p, r) ==
    /\ r % Gwei = 0
    /\ r >= p
    /\ r - p < Gwei
    /\ (p % Gwei = 0 => r = p)

\* the running bridge holds the rounded price and answers eth_gasPrice with it
EffectivePrice ==
    /\ main_pc = "running" =>
          /\ min_gas_price % Gwei = 0
          /\ args_min_gas_price # None =>
                RoundedUp(Unwrap(args_min_gas_price), min_gas_price)
          /\ args_min_gas_price = None =>
                \E d \in DefaultPrices : RoundedUp(d, min_gas_price)
    /\ reply.method = "eth_gasPrice" => reply.ret = min_gas_price

SEND_RETRIES == 5
STATUS_RETRIES == 15
MaxConfirmTxs == 2   \* number of transactions handed to the function

ConfirmTxs == 1..MaxConfirmTxs

\* a solana transaction: its identity and the blockhash it is signed with
SolanaTx(id, blockhash) == [id |-> id, recent_blockhash |-> blockhash]

\* the signature of a transaction is determined by its message
signature_of(transaction) == <<transaction.id, transaction.recent_blockhash>>

\* answers of rpc_client.get_signature_statuses(&[signature]): a failure of the
\* call, or a response whose vector holds one Option<TransactionStatus>
NoStatusAnswer == [ok |-> FALSE, value |-> None, asked |-> FALSE]
StatusErr == [ok |-> FALSE, value |-> None, asked |-> TRUE]
StatusOk(value) == [ok |-> TRUE, value |-> value, asked |-> TRUE]
TransactionStatus(confirmations) == [confirmations |-> confirmations]
Confirmations == {None, Some(0), Some(1)}
StatusAnswers ==
    {StatusErr, StatusOk(None)} \cup
    {StatusOk(Some(TransactionStatus(c))) : c \in Confirmations}

\* the answer carries a status with a confirmation count above zero
Confirmed(answer) ==
    /\ answer.ok
    /\ answer.value # None
    /\ Unwrap(answer.value).confirmations # None
    /\ Unwrap(Unwrap(answer.value).confirmations) > 0

\* a variant of the closure that drops an entry whose status is not known
retain_unconfirmed_known_only(signature, answer) ==
    LET response == IF signature = None \/ ~answer.ok THEN None ELSE Some(answer.value)
        status == IF response = None THEN None ELSE Unwrap(response)
        confirmations == IF status = None THEN None ELSE Unwrap(status).confirmations
    IN  IF confirmations = None THEN FALSE ELSE Unwrap(confirmations) = 0

\* the closure given to transactions_signatures.retain : TRUE keeps the entry
retain_unconfirmed(signature, answer) ==
    LET response == IF signature = None \/ ~answer.ok THEN None ELSE Some(answer.value)
        status == IF response = None THEN None ELSE Unwrap(response)
        confirmations == IF status = None THEN None ELSE Unwrap(status).confirmations
    IN  IF confirmations = None THEN TRUE ELSE Unwrap(confirmations) = 0

\* a send loop with one iteration more
send_loop_one_more(done) == done <= SEND_RETRIES

\* `for _ in 0..SEND_RETRIES` : is there another iteration after `done` of them
send_loop_continues(done) == done < SEND_RETRIES

\* `for _ in 0..STATUS_RETRIES`
status_loop_continues(done) == done < STATUS_RETRIES

SelectSeq2(seq, keep) ==
    LET F[i \in 0..Len(seq)] ==
            IF i = 0 THEN <<>>
            ELSE IF keep[i] THEN Append(F[i - 1], seq[i]) ELSE F[i - 1]
    IN  F[Len(seq)]

\* the call send_and_confirm_transactions(rpc_client, transactions, signer_keys)
send_and_confirm_transactions(transactions) ==
    [pc |-> "send", iterations |-> 0, polls |-> 0,
     transactions |-> transactions,
     transactions_signatures |-> <<>>,
     sent |-> [t \in ConfirmTxs |-> 0],
     signed |-> [t \in ConfirmTxs |-> 0],
     confirmed |-> {},
     ret |-> "none"]

\* head of the outer loop, and the map over transactions.drain(..): every
\* transaction is sent once, a failed send leaves it without a signature
confirm_send(accepted) ==
    /\ cf.pc = "send"
    /\ IF send_loop_continues(cf.iterations)
       THEN cf' = [cf EXCEPT
                !.pc = "poll",
                !.polls = 0,
                !.transactions = <<>>,
                !.transactions_signatures =
                    [i \in DOMAIN cf.transactions |->
                        [transaction |-> cf.transactions[i],
                         signature |-> IF cf.transactions[i].id \in accepted
                                       THEN Some(signature_of(cf.transactions[i]))
                                       ELSE None]],
                !.sent = [t \in ConfirmTxs |->
                            IF \E i \in DOMAIN cf.transactions : cf.transactions[i].id = t
                            THEN cf.sent[t] + 1 ELSE cf.sent[t]]]
       ELSE cf' = [cf EXCEPT !.pc = "Err", !.ret = "Transactions failed"]
    /\ UNCHANGED <<cfgVars, core, pool, calls, reply, lg, hx>>

\* one pass of the status loop: retain, then the emptiness test
confirm_poll(answers) ==
    /\ cf.pc = "poll"
    /\ IF status_loop_continues(cf.polls)
       THEN LET ts == cf.transactions_signatures
                answer(i) == IF ts[i].signature = None THEN NoStatusAnswer
                             ELSE answers[ts[i].transaction.id]
                keep == [i \in DOMAIN ts |-> retain_unconfirmed(ts[i].signature, answer(i))]
                kept == SelectSeq2(ts, keep)
            IN  cf' = [cf EXCEPT
                    !.transactions_signatures = kept,
                    !.polls = cf.polls + 1,
                    !.confirmed = cf.confirmed \cup
                        {ts[i].transaction.id : i \in {j \in DOMAIN ts : Confirmed(answer(j))}},
                    !.pc = IF kept = <<>> THEN "Ok" ELSE "poll",
                    !.ret = IF kept = <<>> THEN "Ok" ELSE "none"]
       ELSE cf' = [cf EXCEPT !.pc = "blockhash"]
    /\ UNCHANGED <<cfgVars, core, pool, calls, reply, lg, hx>>

\* get_new_blockhash(..)? and the re-signing loop with its try_sign(..)? :
\* sign_failure is the position of the entry whose signing fails, if it is one
confirm_resign(blockhash_ok, sign_failure) ==
    /\ cf.pc = "blockhash"
    /\ LET ts == cf.transactions_signatures
           blockhash == ts[1].transaction.recent_blockhash + 1
           tried(t) == \E i \in DOMAIN ts :
                          /\ ts[i].transaction.id = t
                          /\ sign_failure \in DOMAIN ts => i <= sign_failure
           signed == [t \in ConfirmTxs |-> IF tried(t) THEN cf.signed[t] + 1 ELSE cf.signed[t]]
       IN  IF ~blockhash_ok
           THEN cf' = [cf EXCEPT !.pc = "Err", !.ret = "blockhash error"]
           ELSE IF sign_failure \in DOMAIN ts
           THEN cf' = [cf EXCEPT !.pc = "Err", !.ret = "sign error", !.signed = signed]
           ELSE cf' = [cf EXCEPT
                    !.pc = "send",
                    !.iterations = cf.iterations + 1,
                    !.transactions =
                        [i \in DOMAIN ts |-> SolanaTx(ts[i].transaction.id, blockhash)],
                    !.transactions_signatures = <<>>,
                    !.signed = signed]
    /\ UNCHANGED <<cfgVars, core, pool, calls, reply, lg, hx>>

ConfirmInputs == {<<>>} \cup {[i \in 1..n |-> SolanaTx(i, 0)] : n \in 1..MaxConfirmTxs}

InitConfirm ==
    /\ min_gas_price = Gwei
    /\ args_min_gas_price = Some(Gwei)
    /\ main_pc = "running"
    /\ verbose_errors = FALSE
    /\ simulate = TRUE
    /\ max_logs_blocks = 500
    /\ overflow_checks = FALSE
    /\ pool = {}
    /\ calls = <<>>
    /\ reply = NoReply
    /\ lg = LgIdle
    /\ core = CoreInit
    /\ hx = HxIdle
    /\ \E transactions \in ConfirmInputs : cf = send_and_confirm_transactions(transactions)

NextConfirm ==
    \/ \E accepted \in SUBSET ConfirmTxs : confirm_send(accepted)
    \/ \E answers \in [ConfirmTxs -> StatusAnswers] : confirm_poll(answers)
    \/ \E blockhash_ok \in BOOLEAN, sign_failure \in 0..MaxConfirmTxs :
          confirm_resign(blockhash_ok, sign_failure)

SpecConfirm == InitConfirm /\ [][NextConfirm]_vars

\* the function is sequential code: whenever it has a next step it takes it
SpecConfirmLive == SpecConfirm /\ WF_vars(NextConfirm)

\* cf.sent, cf.signed and cf.confirmed record what the function did and was told:
\* how often each transaction was sent and signed, and for which transactions a
\* status poll answered with a confirmation count above zero.

\* the transactions still in the function's hands
ConfirmPending ==
    {cf.transactions[i].id : i \in DOMAIN cf.transactions} \cup
    {cf.transactions_signatures[i].transaction.id : i \in DOMAIN cf.transactions_signatures}

ConfirmInput == {t \in ConfirmTxs : cf.sent[t] > 0} \cup ConfirmPending

ConfirmReturned == cf.pc \in {"Ok", "Err"}

C21_Bounded ==
    /\ cf.iterations <= SEND_RETRIES
    /\ cf.polls <= STATUS_RETRIES
    /\ \A t \in ConfirmTxs : cf.sent[t] <= SEND_RETRIES
    /\ \A t \in ConfirmPending :
          /\ cf.pc = "send" => cf.sent[t] = cf.iterations
          /\ cf.pc \in {"poll", "blockhash"} => cf.sent[t] = cf.iterations + 1
    /\ \A i \in DOMAIN cf.transactions :
          cf.transactions[i].recent_blockhash = cf.iterations
    /\ (cf.pc \in {"poll", "blockhash"} /\ cf.polls > 0) => ConfirmPending # {}
    /\ cf.pc = "Ok" => ConfirmPending = {}
    /\ cf.pc = "Err" =>
          /\ ConfirmPending # {}
          /\ cf.ret \in {"Transactions failed", "blockhash error", "sign error"}
          /\ cf.ret = "Transactions failed" => cf.iterations = SEND_RETRIES

\* C21: send_and_confirm_transactions always returns: it runs at most 5 send
\* iterations, each sending every transaction still unconfirmed once and polling
\* the statuses at most 15 times, with the unconfirmed transactions re-signed
\* with a fresh blockhash between iterations; it returns Ok as soon as nothing
\* is unconfirmed and an error ("Transactions failed", or the blockhash or sign
\* error) otherwise, so no transaction is sent more than 5 times.
C21_Terminates ==
    /\ []C21_Bounded
    /\ <>ConfirmReturned

C21_Witness ==
    /\ cf.pc = "Err"
    /\ cf.ret = "Transactions failed"
    /\ \A t \in ConfirmTxs : cf.sent[t] = SEND_RETRIES

C30_Removed ==
    /\ \A t \in ConfirmInput : t \notin ConfirmPending <=> t \in cf.confirmed
    /\ cf.pc = "Ok" => ConfirmInput \subseteq cf.confirmed

C30_Gone ==
    \A t \in ConfirmInput :
        t \notin ConfirmPending =>
            /\ cf'.sent[t] = cf.sent[t]
            /\ cf'.signed[t] = cf.signed[t]
            /\ \A i \in DOMAIN cf'.transactions : cf'.transactions[i].id # t
            /\ \A i \in DOMAIN cf'.transactions_signatures :
                  cf'.transactions_signatures[i].transaction.id # t

\* C30: a transaction leaves the pending set of send_and_confirm_transactions
\* exactly when a status poll reports confirmations > 0 for it (a failed send,
\* an unknown status or a status without a confirmation count keeps it
\* pending); once it has left it is never signed or sent again; and Ok is
\* returned only if every input transaction has left that way.
C30_RemovedWhenConfirmed ==
    /\ []C30_Removed
    /\ [][C30_Gone]_vars

C30_Witness ==
    /\ cf.pc = "Ok"
    /\ cf.confirmed = {1, 2}
    /\ cf.sent[1] = 1
    /\ cf.sent[2] = 3
    /\ cf.signed[2] = 2

(***************************************************************************)
(* Hex<T> and Bytes (evm-rpc/src/serialize.rs).  A string is a sequence of *)
(* characters; a character outside ASCII takes more than one byte, and the *)
(* slices &s[2..], &s[..2] count bytes.                                    *)
(***************************************************************************)
HexWidth == 2    \* hex digits of the integer type T (2 is u8)
MaxStrLen == 4   \* characters of a string handed to a deserializer

HexMax == 16^HexWidth - 1

LowerHexChars == <<"0", "1", "2", "3", "4", "5", "6", "7", "8", "9",
                   "a", "b", "c", "d", "e", "f">>
UpperHexChars == <<"0", "1", "2", "3", "4", "5", "6", "7", "8", "9",
                   "A", "B", "C", "D", "E", "F">>

\* char::to_digit(16)
to_digit(c) ==
    IF \E i \in 1..16 : LowerHexChars[i] = c
    THEN Some((CHOOSE i \in 1..16 : LowerHexChars[i] = c) - 1)
    ELSE IF \E i \in 1..16 : UpperHexChars[i] = c
    THEN Some((CHOOSE i \in 1..16 : UpperHexChars[i] = c) - 1)
    ELSE None

\* char::len_utf8 ; "U+00E9" stands for one character outside ASCII
len_utf8(c) == IF c = "U+00E9" THEN 2 ELSE 1

\* the byte offset of the end of the first k characters
RECURSIVE byte_offset(_, _)
byte_offset(str, k) == IF k = 0 THEN 0 ELSE byte_offset(str, k - 1) + len_utf8(str[k])

\* str::len
str_len(str) == byte_offset(str, Len(str))

StrOk(str) == [panic |-> FALSE, str |-> str]
StrPanic == [panic |-> TRUE, str |-> <<>>]

\* &str[index..] : panics when index is beyond the end or inside a character
slice_from(str, index) ==
    IF \E k \in 0..Len(str) : byte_offset(str, k) = index
    THEN LET k == CHOOSE j \in 0..Len(str) : byte_offset(str, j) = index
         IN  StrOk(SubSeq(str, k + 1, Len(str)))
    ELSE StrPanic

\* &str[..index] and &str[0..index]
slice_to(str, index) ==
    IF \E k \in 0..Len(str) : byte_offset(str, k) = index
    THEN LET k == CHOOSE j \in 0..Len(str) : byte_offset(str, j) = index
         IN  StrOk(SubSeq(str, 1, k))
    ELSE StrPanic

\* format!("{:x}", val)
RECURSIVE lower_hex(_)
lower_hex(val) ==
    IF val < 16 THEN <<LowerHexChars[val + 1]>>
    ELSE Append(lower_hex(val \div 16), LowerHexChars[(val % 16) + 1])

RECURSIVE trim_start_matches(_, _)
trim_start_matches(str, c) ==
    IF str # <<>> /\ Head(str) = c THEN trim_start_matches(Tail(str), c) ELSE str

format_hex_trimmed(val) == <<"0", "x">> \o trim_start_matches(lower_hex(val), "0")

\* FormatHex::format_hex of the integer types
format_hex(val) == format_hex_trimmed(val)

\* Serialize for Hex<T> without the arm for the empty digit string
serialize_hex_plain(val) == format_hex(val)

\* Serialize for Hex<T>
serialize_hex(val) ==
    LET value == format_hex(val)
    IN  IF value = <<"0", "x">> THEN <<"0", "x", "0">> ELSE value

\* results of the parsers: a value, an error value, or a panic
ParseOk(val) == [kind |-> "Ok", val |-> val, bytes |-> <<>>]
ParseBytes(bytes) == [kind |-> "Ok", val |-> 0, bytes |-> bytes]
ParseErr == [kind |-> "Err", val |-> 0, bytes |-> <<>>]
ParsePanic == [kind |-> "panic", val |-> 0, bytes |-> <<>>]

\* the digits of a string, most significant first, accumulated with the
\* overflow check of the integer type
RECURSIVE parse_digits(_, _)
parse_digits(digits, acc) ==
    IF digits = <<>> THEN ParseOk(acc)
    ELSE IF to_digit(Head(digits)) = None THEN ParseErr
    ELSE IF acc * 16 + Unwrap(to_digit(Head(digits))) > HexMax THEN ParseErr
    ELSE parse_digits(Tail(digits), acc * 16 + Unwrap(to_digit(Head(digits))))

\* uN::from_str_radix(data, 16)
from_str_radix(data) ==
    IF data = <<>> THEN ParseErr
    ELSE IF Head(data) \in {"+", "-"} /\ Tail(data) = <<>> THEN ParseErr
    ELSE IF Head(data) = "+" THEN parse_digits(Tail(data), 0)
    ELSE parse_digits(data, 0)

\* the digits of a string as a number of any size
RECURSIVE hex_value(_, _)
hex_value(digits, acc) ==
    IF digits = <<>> THEN acc
    ELSE hex_value(Tail(digits), acc * 16 + Unwrap(to_digit(Head(digits))))

\* the releases of the uint crate behind U128 / U256 / U512 : the newer ones
\* strip a leading "0x" and answer an over-long string with an error, the older
\* ones convert the decoded bytes with a length assertion
UintReleases == {"old", "new"}

\* <U256 as FromStr>::from_str : hex digits, an odd number of them allowed
uint_from_str(data, release) ==
    LET value == IF release = "new" /\ Len(data) >= 2 /\ SubSeq(data, 1, 2) = <<"0", "x">>
                 THEN SubSeq(data, 3, Len(data)) ELSE data
    IN  IF \E i \in DOMAIN value : to_digit(value[i]) = None THEN ParseErr
        ELSE IF Len(value) > HexWidth
        THEN IF release = "new" THEN ParseErr ELSE ParsePanic
        ELSE ParseOk(hex_value(value, 0))

HexTypes == {"u8", "U256"}

\* <T as FormatHex>::from_hex
T_from_hex(T, data, release) ==
    IF T = "u8" THEN from_str_radix(data) ELSE uint_from_str(data, release)

\* Hex::<T>::from_hex
Hex_from_hex(T, data, release) ==
    IF slice_to(data, 2).panic THEN ParsePanic
    ELSE IF slice_to(data, 2).str # <<"0", "x">> THEN ParseErr
    ELSE T_from_hex(T, slice_from(data, 2).str, release)

\* HexVisitor::visit_str
HexVisitor_visit_str(T, str, release) ==
    IF slice_from(str, 2).panic THEN ParsePanic
    ELSE LET d == T_from_hex(T, slice_from(str, 2).str, release)
         IN  IF d.kind = "Ok" /\ slice_to(str, 2).str = <<"0", "x">> THEN d
             ELSE IF d.kind = "panic" THEN ParsePanic
             ELSE ParseErr

\* pairs of hex digits to bytes
RECURSIVE decode_pairs(_)
decode_pairs(digits) ==
    IF digits = <<>> THEN <<>>
    ELSE <<Unwrap(to_digit(digits[1])) * 16 + Unwrap(to_digit(digits[2]))>>
             \o decode_pairs(SubSeq(digits, 3, Len(digits)))

\* hex::decode
hex_decode(data) ==
    IF str_len(data) % 2 # 0 THEN ParseErr
    ELSE IF \E i \in DOMAIN data : to_digit(data[i]) = None THEN ParseErr
    ELSE ParseBytes(decode_pairs(data))

\* BytesVisitor::visit_str
BytesVisitor_visit_str(str) ==
    IF slice_from(str, 2).panic THEN ParsePanic
    ELSE LET d == hex_decode(slice_from(str, 2).str)
         IN  IF d.kind = "Ok" /\ slice_to(str, 2).str = <<"0", "x">> THEN d ELSE ParseErr

\* serde_json::to_string(&Hex(val))
hex_serialize(T, val) ==
    /\ hx.pc = "idle"
    /\ hx' = [pc |-> "serialized", op |-> "Hex", T |-> T, val |-> val,
              str |-> serialize_hex(val), res |-> ParseErr]
    /\ UNCHANGED <<cfgVars, core, pool, calls, reply, lg, cf>>

\* serde_json::from_str::<Hex<T>> of the string just produced
hex_deserialize(release) ==
    /\ hx.pc = "serialized"
    /\ hx' = [hx EXCEPT !.pc = "deserialized",
                        !.res = HexVisitor_visit_str(hx.T, hx.str, release)]
    /\ UNCHANGED <<cfgVars, core, pool, calls, reply, lg, cf>>

\* serde_json::from_str::<Hex<T>> of a string of the client
hex_visit_str(T, str, release) ==
    /\ hx.pc = "idle"
    /\ hx' = [pc |-> "visited", op |-> "Hex", T |-> T, val |-> 0,
              str |-> str, res |-> HexVisitor_visit_str(T, str, release)]
    /\ UNCHANGED <<cfgVars, core, pool, calls, reply, lg, cf>>

\* Hex::<T>::from_hex of a string
hex_from_hex(T, str, release) ==
    /\ hx.pc = "idle"
    /\ hx' = [pc |-> "visited", op |-> "from_hex", T |-> T, val |-> 0,
              str |-> str, res |-> Hex_from_hex(T, str, release)]
    /\ UNCHANGED <<cfgVars, core, pool, calls, reply, lg, cf>>

\* serde_json::from_str::<Bytes> of a string of the client
bytes_visit_str(str) ==
    /\ hx.pc = "idle"
    /\ hx' = [pc |-> "visited", op |-> "Bytes", T |-> "u8", val |-> 0,
              str |-> str, res |-> BytesVisitor_visit_str(str)]
    /\ UNCHANGED <<cfgVars, core, pool, calls, reply, lg, cf>>

\* the characters of the strings handed to the deserializers
InputChars == {"0", "f", "x", "g", "+", "F", "U+00E9"}
InputStrings == UNION {[1..n -> InputChars] : n \in 0..MaxStrLen}

InitHex ==
    /\ min_gas_price = Gwei
    /\ args_min_gas_price = Some(Gwei)
    /\ main_pc = "running"
    /\ verbose_errors = FALSE
    /\ simulate = TRUE
    /\ max_logs_blocks = 500
    /\ overflow_checks = FALSE
    /\ pool = {}
    /\ calls = <<>>
    /\ reply = NoReply
    /\ lg = LgIdle
    /\ core = CoreInit
    /\ cf = CfIdle
    /\ hx = HxIdle

NextHex ==
    \/ /\ hx.pc = "idle"
       /\ \E T \in HexTypes, val \in 0..HexMax : hex_serialize(T, val)
    \/ \E release \in UintReleases : hex_deserialize(release)
    \/ /\ hx.pc = "idle"
       /\ \E T \in HexTypes, str \in InputStrings, release \in UintReleases :
             hex_visit_str(T, str, release)
    \/ /\ hx.pc = "idle"
       /\ \E T \in HexTypes, str \in InputStrings, release \in UintReleases :
             hex_from_hex(T, str, release)
    \/ /\ hx.pc = "idle"
       /\ \E str \in InputStrings : bytes_visit_str(str)

SpecHex == InitHex /\ [][NextHex]_vars

\* C22: for every unsigned integer n of the type, deserializing the string
\* that Hex(n) serializes to gives n back; that string is "0x0" for zero
\* ("0x1" for one) and otherwise "0x" followed by lowercase hex digits of
\* which the first is not zero.
C22_RoundTrip ==
    /\ hx.pc \in {"serialized", "deserialized"} =>
          /\ Len(hx.str) >= 3
          /\ SubSeq(hx.str, 1, 2) = <<"0", "x">>
          /\ \A i \in 3..Len(hx.str) : \E d \in 1..16 : LowerHexChars[d] = hx.str[i]
          /\ hx.val = 0 <=> hx.str = <<"0", "x", "0">>
          /\ hx.val = 1 => hx.str = <<"0", "x", "1">>
          /\ hx.val > 0 => hx.str[3] # "0"
    /\ hx.pc = "deserialized" => hx.res = ParseOk(hx.val)

C22_Witness ==
    /\ hx.pc = "deserialized"
    /\ hx.val = 0
    /\ hx.str = <<"0", "x", "0">>
    /\ hx.res = ParseOk(0)

StartsWith0x(str) == Len(str) >= 2 /\ str[1] = "0" /\ str[2] = "x"

\* C23: deserializing a Hex<T> or a Bytes value asks for the "0x" prefix: a
\* string that does not start with "0x" (the empty string and one-character
\* strings included) is answered with an error value, never with a panic and
\* never with a value.
C23_PrefixRequired ==
    (hx.pc = "visited" /\ ~StartsWith0x(hx.str)) => hx.res = ParseErr

(***************************************************************************)
(* Claims about the nonces of pooled transactions and the result channel.  *)
(***************************************************************************)
PoolSenders == {e.tx.sender : e \in pool}
PoolNonces(sender) == {e.tx.nonce : e \in {x \in pool : x.tx.sender = sender}}

\* C24: for every sender the nonces of the stored transactions form a range
\* [n, n+k] without gaps, whatever sendTransaction / sendRawTransaction
\* admissions (with a nonce of the caller's choice), deploys and cleaner
\* removals happened.
C24_ContiguousNonces ==
    \A sender \in PoolSenders :
        \A n \in Min(PoolNonces(sender))..Max(PoolNonces(sender)) : n \in PoolNonces(sender)

\* C25: a submitter waiting on the result channel in simulate mode is not left
\* behind when its pooled entry is removed or replaced before a result was
\* published: the handler does not panic, and as long as it waits without a
\* result its entry is still pooled (so that a worker can still publish).
C25_WaiterReleased ==
    \A c \in DOMAIN calls :
        /\ calls[c].pc # "panicked"
        /\ (calls[c].pc = "waiting" /\ calls[c].chan = NoResult) =>
               \E e \in pool : e.call = c

\* C26: two sendTransaction calls of one address that both omit the nonce are
\* never given the same nonce, also when they run concurrently.
C26_DistinctNonces ==
    \A c1, c2 \in DOMAIN calls :
        (/\ c1 # c2
         /\ calls[c1].method = "send_transaction" /\ calls[c2].method = "send_transaction"
         /\ calls[c1].tx.sender = calls[c2].tx.sender
         /\ calls[c1].nonce_arg = None /\ calls[c2].nonce_arg = None
         /\ calls[c1].imp # "none" /\ calls[c2].imp # "none")
        => calls[c1].tx.nonce # calls[c2].tx.nonce

(***************************************************************************)
(* Further claims about eth_getLogs of the bridge.                         *)
(***************************************************************************)
\* C27: the chunk loop of the log planner ends after finitely many sub-queries
\* for every accepted range, ranges that end at or near u64::MAX included
\* (every sub-query lies below the loop variable that follows it and a later
\* sub-query starts above the earlier one), and the range check
\* starting + max_logs_blocks neither panics nor refuses a range with
\* from <= to <= from + max_logs_blocks.
C27_PlannerTerminates ==
    /\ lg.pc # "panicked"
    /\ (Resolved /\ lg.starting_block <= lg.ending_block
          /\ lg.ending_block - lg.starting_block <= max_logs_blocks)
          => lg.ret.kind # "InvalidBlocksRange"
    /\ AcceptedByCode =>
          /\ \A i \in DOMAIN lg.collector, j \in DOMAIN lg.collector :
                i < j => lg.collector[i].to < lg.collector[j].from
          /\ (lg.pc = "plan" /\ lg.collector # <<>>) =>
                lg.collector[Len(lg.collector)].to < lg.starting

\* C29: eth_getLogs with fromBlock and toBlock both absent or latest resolves
\* both endpoints to one upstream block number: the request is never refused
\* with InvalidBlocksRange and issues exactly one sub-query, for that single
\* block, whatever max_logs_blocks >= 0 is and also when the upstream block
\* number advances while the request is served.
C29_LatestIsOneBlock ==
    (/\ lg.from_block \in {None, Some(Rel("latest"))}
     /\ lg.to_block \in {None, Some(Rel("latest"))}
     /\ Resolved)
    => /\ lg.starting_block = lg.ending_block
       /\ lg.ret.kind # "InvalidBlocksRange"
       /\ lg.pc # "panicked"
       /\ Len(lg.collector) <= 1
       /\ \A i \in DOMAIN lg.collector :
             lg.collector[i].from = lg.starting_block /\ lg.collector[i].to = lg.starting_block
       /\ lg.pc \in {"join", "done"} => Len(lg.collector) = 1

(***************************************************************************)
(* Further claims about the core node.                                     *)
(***************************************************************************)
\* C28: the block_number handler of the core answers the number of the latest
\* confirmed EVM block, the number that block_parse_confirmed_num gives for
\* `latest`; it is not zero when the latest confirmed block is not block zero.
C28_LatestBlockNumber ==
    reply.method = "block_number" =>
        reply.ret = CoreRes("Ok",
                        <<Unwrap(block_parse_confirmed_num(core, Some(Rel("latest"))))>>)

====
